---- MODULE Spec2Model ----
(***************************************************************************)
(* Verification model of the ZboxFS storage engine vendored in             *)
(* src-tauri/vendor/zbox and of the application code built on it.          *)
(*                                                                         *)
(* The module holds several state machines over disjoint groups of         *)
(* variables, one specification each:                                      *)
(*   SpecFile   one read-write File handle on a file (file.rs)             *)
(*   SpecClosed one read-write File handle on an Fs that is dropped      *)
(*   SpecFile1  one write-only File handle on a file                       *)
(*   SpecFlush  one write-only File handle that also flushes               *)
(*   SpecFile2  two write-only File handles, one thread each               *)
(*   SpecFooBar one read-write File handle writing the example buffers     *)
(*   SpecShared two read-write File handles, one thread each               *)
(*   SpecThread two write-only File handles used by one thread             *)
(*   SpecNs     the namespace of an Fs opened for writing (fs.rs)          *)
(*   SpecRo     the namespace of an Fs reopened read-only or for writing   *)
(*   SpecTree   every call that changes the namespace of an Fs           *)
(*   SpecLock   the repo lock of the mem, file and redis storages          *)
(*   SpecRace   lock_repo of concurrent processes, step by step            *)
(*   SpecVault  Storage::open_with_root of the application on one root     *)
(*   SpecWal    Fs::create, transaction commit, crash and Fs::open         *)
(*   SpecSb     the two super block copies, reset_password and open        *)
(*   SpecOpen   Volume::open and the repo lock, failed opens included     *)
(*   SpecInit   Volume::init on a location that may hold a volume        *)
(*   SpecVer    Volume::open on a volume of any format version             *)
(*   SpecCry    encryption and decryption of a message (crypto.rs)         *)
(*   SpecUri    the volume URI in the log lines of Fs::create and Fs::open *)
(*   SpecKv     the WAL and the address store of the three storages        *)
(*   SpecApp    the credentials an application Storage keeps in its vault  *)
(*   SpecCost   the encoding of a Cost as one byte                         *)
(*   SpecFmt    Display of an api Response, and login logging its result   *)
(*   SpecCmd    the commands of the application as concurrent tasks        *)
(*   SpecCmdLive  the same, with every task polled                         *)
(*   SpecSrv    the commands that touch ServerState.current                *)
(***************************************************************************)
EXTENDS Integers, Sequences, FiniteSets, TLC

VARIABLES
    \* ---- File handles on one file (SpecFile) ----
    hs,         \* the File handles that are open on the file
    closed,     \* Shutter: the Fs was dropped
    limit,      \* Options.version_limit of the file
    thr,        \* thr[h]: the thread that uses handle h
    mode,       \* mode[h]: [r |-> can_read, w |-> can_write]
    vers,       \* Fnode version list, oldest first: [num, ctn]
    pos,        \* File.pos (always SeekFrom::Start)
    wtr,        \* File.wtr: None or [start, buf]
    txh,        \* File.tx_handle: "none", "live" or "dead" (aborted)
    rdr,        \* File.rdr: None or [num, ctn, at], a reader on version num
    commits,    \* every version ever committed, in commit order: [num, h]
    \* ---- the storage behind a volume (all specifications) ----
    backend,    \* "mem", "file" or "redis"
    \* ---- repo lock (SpecLock) ----
    exists,     \* the volume was initialised (depot, directories, super block)
    marker,     \* Depot.is_opened, the lock file, the redis lock key
    inst,       \* inst[i]: "new", "att" (is_attached), "released", "gone"
    forced,     \* some open was called with force = true
    \* ---- super block (SpecSb, SpecWal) ----
    sb,         \* sb[suffix]: the stored copy, [st, pwd, payload]
    spc,        \* the step reset_password has reached, or "down"
    given,      \* the password and payload the volume was created with
    newpwd,     \* the password reset_password is saving, or None
    opened,     \* what the last Volume::open returned
    \* ---- transactions and WAL (SpecWal) ----
    disk,       \* disk[o]: id of the transaction whose mutation o holds
    wal,        \* the stored WAL records: [txid, objs, ok]
    pc,         \* "down", "idle", "staged", "logging", "applying"
    todo,       \* mutations of the committing transaction not yet applied
    txobjs,     \* txobjs[k]: the objects transaction k mutates
    logged,     \* transactions whose WAL record was written completely
    acked,      \* transactions whose commit returned Ok
    \* ---- namespace of an opened Fs (SpecNs) ----
    nodes,      \* nodes[n]: the fnode n, [st, type, parent, name]
    ro,         \* Fs.read_only
    held,       \* fnodes that a File handle was opened on
    \* ---- volume format version (SpecVer) ----
    volver,     \* the version stored in the super block body
    \* ---- authenticated encryption (SpecCry) ----
    cry,        \* the last encryption: its Crypto, inputs, nonce and output
    recv,       \* the cipher text as it reaches the decryption
    dec,        \* what the last decryption returned: [res, msg]
    \* ---- log lines (SpecUri) ----
    uri,        \* the URI of the volume: [scheme, creds, host]
    lines,      \* the lines Fs::create and Fs::open logged: [op, read_only, text]
    \* ---- WAL and address store of a storage (SpecKv) ----
    kv,         \* what the storage holds
    shadow,     \* the map from id to bytes that the calls so far describe
    \* ---- application Storage (SpecApp) ----
    credfile,   \* the content of /credentials in the vault, if it exists
    latest,     \* the list the last store_credentials was given, if any
    app,        \* the Storage: "open", "dropped" or "reopened"
    loaded,     \* what the last credentials() returned: [res, list]
    \* ---- commands of the application (SpecCmd) ----
    bin,        \* the binary that runs: [imp, info]
    tasks,      \* tasks[t]: the command task t runs and where it is: [cmd, pc]
    umx,        \* Mutex<UserState>: the task that holds it, or 0
    smx,        \* Mutex<ServerState>: the task that holds it, or 0
    token,      \* UserState.token: 0 for None, or the login task that set it
    fresh,      \* login tasks that count as invoked after the last logout
    srv,        \* ServerState: [current, servers]
    \* ---- Display of a Response (SpecFmt) ----
    fmtst,      \* the formatting of one Response: [imp, variant, by, info, pc, depth]
    \* ---- encoding of a Cost (SpecCost) ----
    costst      \* the last conversion: [op, arg, out]

fileVars == <<hs, closed, limit, thr, mode, vers, pos, wtr, txh, rdr, commits>>
lockVars == <<exists, marker, inst, forced>>
sbVars == <<sb, spc, given, newpwd, opened>>
walVars == <<disk, wal, pc, todo, txobjs, logged, acked>>
nsVars == <<nodes, ro, held>>
cryVars == <<cry, recv, dec>>
uriVars == <<uri, lines>>
kvVars == <<kv, shadow>>
appVars == <<credfile, latest, app, loaded>>
cmdVars == <<bin, tasks, umx, smx, token, fresh, srv>>
extVars == <<cmdVars, fmtst, costst>>
auxVars == <<volver, cryVars, uriVars, kvVars, appVars, extVars>>
\* every variable of the storage engine and of the application Storage
coreVars == <<fileVars, backend, lockVars, sbVars, walVars, nsVars, volver,
              cryVars, uriVars, kvVars, appVars>>

vars == <<fileVars, backend, lockVars, sbVars, walVars, nsVars, auxVars>>

----------------------------------------------------------------------------
\* Bounds of the model

\* longest file content, in bytes
MaxLen == 2
\* versions committed in one behaviour
MaxVers == 3
\* largest version_limit a file is opened with
MaxLimit == 2

\* Default file version limit
DEFAULT_VERSION_LIMIT == 1

\* the modulus of `pos as u64`; 2^64 in the code, 2^30 here (TLC integers)
U64 == 2 ^ 30

Handles == {1, 2}
\* buffers handed to write and write_once: handle h writes bytes h
Bufs(h) == {<<h>>}
\* SeekFrom values handed to seek
SeekArgs ==
    [kind : {"Start"}, off : 0 .. MaxLen]
        \cup [kind : {"End", "Current"}, off : {-1, 0, 1}]
\* buffer sizes handed to read
ReadLens == {1, MaxLen}
\* the fallible step of a call that fails, if any
Faults == {"none", "set_len", "renew_sl", "new_wtr", "write", "commit", "renew"}

None == [none |-> TRUE]

----------------------------------------------------------------------------
\* Fnode: versions and content

\* Fnode::curr_ver_num: 0 while no version exists
curr_ver_num(vs) == IF vs = <<>> THEN 0 ELSE vs[Len(vs)].num

\* content of the current version
curr_ctn(vs) == IF vs = <<>> THEN <<>> ELSE vs[Len(vs)].ctn

\* Fnode::curr_len
curr_len == Len(curr_ctn(vers))

\* variant of history that leaves out the current version
history_old == IF vers = <<>> THEN <<>> ELSE SubSeq(vers, 1, Len(vers) - 1)

\* File::history
history == vers

\* File::curr_version
curr_version == curr_ver_num(vers)

Max(a, b) == IF a > b THEN a ELSE b

\* content truncated or zero-extended to n bytes
Resize(ctn, n) == [i \in 1 .. n |-> IF i <= Len(ctn) THEN ctn[i] ELSE 0]

\* buf written over ctn from offset start
Overlay(ctn, start, buf) ==
    [i \in 1 .. Max(Len(ctn), start + Len(buf)) |->
        IF i > start /\ i <= start + Len(buf) THEN buf[i - start]
        ELSE IF i <= Len(ctn) THEN ctn[i] ELSE 0]

\* Fnode::add_version: append, then retire the oldest beyond the limit
add_version(vs, ctn) ==
    LET v == [num |-> curr_ver_num(vs) + 1, ctn |-> ctn]
        all == Append(vs, v)
    IN  IF Len(all) > limit THEN Tail(all) ELSE all

----------------------------------------------------------------------------
\* File: the state one call works on, and the outcome of a call

\* the fields a call on handle h reads and writes
St(h) ==
    [vers |-> vers, commits |-> commits, pos |-> pos[h], wtr |-> wtr[h],
     txh |-> txh[h], rdr |-> rdr[h]]

Out(res, s) == [res |-> res, s |-> s]

\* File::check_closed
check_closed == closed

\* TxMgr::begin_trans refuses a second transaction on the calling thread
in_trans(h) == \E g \in Handles \ {h} : thr[g] = thr[h] /\ txh[g] = "live"

\* a committed transaction that adds one version holding ctn
commit_version(h, s, ctn) ==
    [s EXCEPT !.vers = add_version(s.vers, ctn),
              !.commits = Append(s.commits,
                  [num |-> curr_ver_num(s.vers) + 1, h |-> h])]

\* File::renew_reader: a reader on the latest version, at self.pos
renew_reader(s) ==
    [s EXCEPT !.rdr = [num |-> curr_ver_num(s.vers),
                       ctn |-> curr_ctn(s.vers), at |-> s.pos]]

\* the tail of finish and set_len: re-create the reader if there is one
renew_if_reader(s, failed) ==
    IF s.rdr = None THEN Out("Ok", s)
    ELSE IF failed THEN Out("Io", s)
    ELSE Out("Ok", renew_reader(s))

\* `x as i64` and `x as u64`
AsI64(q) == IF q >= U64 \div 2 THEN q - U64 ELSE q
AsU64(x) == x % U64

\* File::seek_pos
seek_pos(s, a) ==
    AsU64(CASE a.kind = "Start" -> a.off
            [] a.kind = "End" -> Len(curr_ctn(s.vers)) + a.off
            [] OTHER -> a.off + AsI64(s.pos))

\* File::set_len
set_len(h, s, len, f) ==
    IF check_closed THEN Out("RepoClosed", s)
    ELSE IF s.wtr # None THEN Out("NotFinish", s)
    ELSE IF ~mode[h].w THEN Out("CannotWrite", s)
    ELSE IF in_trans(h) THEN Out("InTrans", s)
    ELSE IF f = "set_len" THEN Out("Io", s)
    ELSE renew_if_reader(
             commit_version(h, s, Resize(curr_ctn(s.vers), len)),
             f = "renew_sl")

\* File::begin_write
begin_write(h, s, f) ==
    IF ~mode[h].w THEN Out("CannotWrite", s)
    ELSE IF s.wtr # None THEN Out("NotFinish", s)
    ELSE LET beyond == s.pos > Len(curr_ctn(s.vers))
             z == IF beyond THEN set_len(h, s, s.pos, f) ELSE Out("Ok", s)
             s1 == IF beyond
                   THEN [z.s EXCEPT !.pos = seek_pos(z.s, [kind |-> "End", off |-> 0])]
                   ELSE z.s
         IN  IF z.res # "Ok" THEN z
             ELSE IF in_trans(h) THEN Out("InTrans", s1)
             ELSE IF f = "new_wtr" THEN Out("Io", s1)
             ELSE Out("Ok", [s1 EXCEPT !.wtr = [start |-> s1.pos, buf |-> <<>>],
                                       !.txh = "live"])

\* variant of finish that writes over the current version in place
finish_overwrite(h, s, f) ==
    IF s.wtr = None THEN Out("NotWrite", s)
    ELSE Out("Ok", [s EXCEPT !.wtr = None, !.txh = "none",
                       !.vers = IF s.vers = <<>>
                                THEN <<[num |-> 1, ctn |-> s.wtr.buf]>>
                                ELSE [s.vers EXCEPT ![Len(s.vers)].ctn = s.wtr.buf]])

\* variant of finish that does not move the position to the end of the write
finish_keep_pos(h, s, f) ==
    IF check_closed THEN Out("RepoClosed", s)
    ELSE IF s.wtr = None THEN Out("NotWrite", s)
    ELSE LET s0 == [s EXCEPT !.wtr = None, !.txh = "none"]
         IN  IF s.txh = "dead" THEN Out("Aborted", s0)
             ELSE IF f = "commit" THEN Out("Io", s0)
             ELSE renew_if_reader(
                      commit_version(h, s0,
                          Overlay(curr_ctn(s.vers), s.wtr.start, s.wtr.buf)),
                      f = "renew")

\* File::finish
finish(h, s, f) ==
    IF check_closed THEN Out("RepoClosed", s)
    ELSE IF s.wtr = None THEN Out("NotWrite", s)
    ELSE LET s0 == [s EXCEPT !.wtr = None, !.txh = "none"]
         IN  IF s.txh = "dead" THEN Out("Aborted", s0)
             ELSE IF f = "commit" THEN Out("Io", s0)
             ELSE renew_if_reader(
                      [commit_version(h, s0,
                           Overlay(curr_ctn(s.vers), s.wtr.start, s.wtr.buf))
                         EXCEPT !.pos = s.wtr.start + Len(s.wtr.buf)],
                      f = "renew")

\* File::write_once
write_once(h, s, buf, f) ==
    IF check_closed THEN Out("RepoClosed", s)
    ELSE IF s.wtr # None THEN Out("NotFinish", s)
    ELSE LET b == begin_write(h, s, f)
         IN  IF b.res # "Ok" THEN b
             ELSE IF f = "write" THEN Out("Io", [b.s EXCEPT !.txh = "dead"])
             ELSE finish(h, [b.s EXCEPT !.wtr.buf = buf], f)

\* variant of write that keeps File.tx_handle when the write fails
write_keep_tx(h, s, buf, f) ==
    IF check_closed THEN Out("RepoClosed", s)
    ELSE LET b == IF s.wtr = None THEN begin_write(h, s, f) ELSE Out("Ok", s)
         IN  IF b.res # "Ok" THEN b
             ELSE IF b.s.txh = "dead" \/ f = "write"
                  THEN Out("Io", [b.s EXCEPT !.wtr = None])
             ELSE Out("Ok", [b.s EXCEPT !.wtr.buf = @ \o buf])

\* impl Write for File: write
write(h, s, buf, f) ==
    IF check_closed THEN Out("RepoClosed", s)
    ELSE LET b == IF s.wtr = None THEN begin_write(h, s, f) ELSE Out("Ok", s)
         IN  IF b.res # "Ok" THEN b
             ELSE IF b.s.txh = "dead"
                  THEN Out("Aborted", [b.s EXCEPT !.wtr = None, !.txh = "none"])
             ELSE IF f = "write"
                  THEN Out("Io", [b.s EXCEPT !.wtr = None, !.txh = "none"])
             ELSE Out("Ok", [b.s EXCEPT !.wtr.buf = @ \o buf])

\* variant of flush without the check of the shutter
flush_open(h, s, f) ==
    IF s.wtr = None THEN Out("CannotWrite", s)
    ELSE IF s.txh = "dead" THEN Out("Aborted", s)
    ELSE IF f = "flush" THEN Out("Io", [s EXCEPT !.txh = "dead"])
    ELSE Out("Ok", s)

\* impl Write for File: flush; a failed run aborts the transaction, and
\* writer and tx handle stay in the File
flush(h, s, f) ==
    IF check_closed THEN Out("RepoClosed", s)
    ELSE IF s.wtr = None THEN Out("CannotWrite", s)
    ELSE IF s.txh = "dead" THEN Out("Aborted", s)
    ELSE IF f = "flush" THEN Out("Io", [s EXCEPT !.txh = "dead"])
    ELSE Out("Ok", s)

\* File::version_reader: a VersionReader on version num of the file
version_reader(h, s, num) ==
    IF check_closed THEN Out("RepoClosed", s)
    ELSE IF ~mode[h].r THEN Out("CannotRead", s)
    ELSE IF \E i \in 1 .. Len(s.vers) : s.vers[i].num = num THEN Out("Ok", s)
    ELSE Out("NoVersion", s)

\* FnodeReader::seek
rdr_seek(s, a) ==
    CASE a.kind = "Start" -> a.off
      [] a.kind = "End" -> Len(s.rdr.ctn) + a.off
      [] OTHER -> AsI64(s.rdr.at) + a.off

\* variant of seek without the test for a pending writer
seek_while_writing(h, s, a) ==
    IF check_closed THEN Out("RepoClosed", s)
    ELSE IF s.rdr # None
         THEN IF rdr_seek(s, a) < 0 THEN Out("InvalidInput", s)
              ELSE Out("Ok", [s EXCEPT !.pos = rdr_seek(s, a),
                                        !.rdr.at = rdr_seek(s, a)])
    ELSE Out("Ok", [s EXCEPT !.pos = seek_pos(s, a)])

\* impl Seek for File: seek
seek(h, s, a) ==
    IF check_closed THEN Out("RepoClosed", s)
    ELSE IF s.wtr # None THEN Out("NotFinish", s)
    ELSE IF s.rdr # None
         THEN IF rdr_seek(s, a) < 0 THEN Out("InvalidInput", s)
              ELSE Out("Ok", [s EXCEPT !.pos = rdr_seek(s, a),
                                        !.rdr.at = rdr_seek(s, a)])
    ELSE Out("Ok", [s EXCEPT !.pos = seek_pos(s, a)])

\* the bytes a reader returns for a buffer of n bytes
rdr_read(ctn, at, n) ==
    IF at >= Len(ctn) THEN <<>>
    ELSE SubSeq(ctn, at + 1, IF at + n > Len(ctn) THEN Len(ctn) ELSE at + n)

\* impl Read for File: read; the outcome carries the bytes read
read(h, s, n, f) ==
    IF check_closed THEN [res |-> "RepoClosed", s |-> s, data |-> <<>>]
    ELSE IF ~mode[h].r THEN [res |-> "CannotRead", s |-> s, data |-> <<>>]
    ELSE IF s.rdr = None /\ f = "renew" THEN [res |-> "Io", s |-> s, data |-> <<>>]
    ELSE LET s1 == IF s.rdr = None THEN renew_reader(s) ELSE s
             got == rdr_read(s1.rdr.ctn, s1.rdr.at, n)
         IN  [res |-> "Ok",
              s |-> [s1 EXCEPT !.rdr.at = @ + Len(got), !.pos = s1.rdr.at + Len(got)],
              data |-> got]

----------------------------------------------------------------------------
\* SpecFile: calls on the handles of one file

\* the model stays inside its bounds
InBounds(s) ==
    /\ Len(s.commits) <= MaxVers
    /\ \A i \in 1 .. Len(s.vers) : Len(s.vers[i].ctn) <= MaxLen
    /\ s.wtr # None => s.wtr.start + Len(s.wtr.buf) <= MaxLen
    /\ s.pos <= MaxLen

\* the variables after a call on handle h with outcome o
Done(h, o) ==
    /\ InBounds(o.s)
    /\ vers' = o.s.vers
    /\ commits' = o.s.commits
    /\ pos' = [pos EXCEPT ![h] = o.s.pos]
    /\ wtr' = [wtr EXCEPT ![h] = o.s.wtr]
    /\ txh' = [txh EXCEPT ![h] = o.s.txh]
    /\ rdr' = [rdr EXCEPT ![h] = o.s.rdr]
    /\ UNCHANGED <<hs, closed, limit, thr, mode>>
    /\ UNCHANGED <<backend, auxVars, nsVars, lockVars, sbVars, walVars>>

Write(h) ==
    /\ pos[h] <= MaxLen
    /\ \E buf \in Bufs(h), f \in Faults \ {"commit", "renew"} :
           Done(h, write(h, St(h), buf, f))

Finish(h) ==
    \E f \in {"none", "commit", "renew"} : Done(h, finish(h, St(h), f))

WriteOnce(h) ==
    /\ pos[h] <= MaxLen
    /\ \E buf \in Bufs(h), f \in Faults :
        Done(h, write_once(h, St(h), buf, f))

SetLen(h) ==
    \E len \in 0 .. MaxLen, f \in {"none", "set_len", "renew_sl"} :
        Done(h, set_len(h, St(h), len, f))

Seek(h) ==
    \E a \in SeekArgs : Done(h, seek(h, St(h), a))

Read(h) ==
    \E n \in ReadLens, f \in {"none", "renew"} : Done(h, read(h, St(h), n, f))

Flush(h) ==
    \E f \in {"none", "flush"} : Done(h, flush(h, St(h), f))

\* the buffers b"foo" and b"bar" of the documented example, one byte each
foo == <<1>>
bar == <<2>>

\* write of one of the two example buffers
WriteData(h) ==
    /\ pos[h] <= MaxLen
    /\ \E buf \in {foo, bar} : Done(h, write(h, St(h), buf, "none"))

\* impl Drop for Fs: the shutter closes
FsDrop ==
    /\ ~closed
    /\ closed' = TRUE
    /\ UNCHANGED <<hs, limit, thr, mode, vers, pos, wtr, txh, rdr, commits>>
    /\ UNCHANGED <<backend, auxVars, nsVars, lockVars, sbVars, walVars>>

----------------------------------------------------------------------------
\* Repo lock of the three storages

\* storage instances opened on one volume
MaxInst == 3
Insts == 1 .. MaxInst
Backends == {"mem", "file", "redis"}

\* the outcome of lock_repo, init and open: the marker and is_attached
Lk(res, m, att) == [res |-> res, marker |-> m, att |-> att]

\* MemStorage::lock_repo
mem_lock_repo(m, force) ==
    IF m /\ ~force THEN Lk("RepoOpened", m, FALSE)
    ELSE Lk("Ok", TRUE, TRUE)

\* MemStorage::init: a new Depot replaces the one stored under loc
mem_init(m) == mem_lock_repo(FALSE, FALSE)

\* MemStorage::open
mem_open(m, force) == mem_lock_repo(m, force)

\* impl Drop for MemStorage, on an attached instance
mem_drop(m) == FALSE

\* variant of lock_repo that sets is_attached before it tests the marker
file_lock_repo_eager(m, force, f) ==
    IF m /\ ~force THEN Lk("RepoOpened", m, TRUE)
    ELSE IF f = "lock" THEN Lk("Io", m, TRUE)
    ELSE Lk("Ok", TRUE, TRUE)

\* FileStorage::lock_repo; f = "lock": the lock file cannot be created
file_lock_repo(m, force, f) ==
    IF m /\ ~force THEN Lk("RepoOpened", m, FALSE)
    ELSE IF f = "lock" THEN Lk("Io", m, FALSE)
    ELSE Lk("Ok", TRUE, TRUE)

\* FileStorage::init; f = "idx": the directories or the index fail
file_init(m, f) ==
    IF f = "idx" THEN Lk("Io", m, FALSE) ELSE file_lock_repo(m, FALSE, f)

\* FileStorage::open
file_open(m, force, f) ==
    IF f = "idx" THEN Lk("Io", m, FALSE) ELSE file_lock_repo(m, force, f)

\* variant of the drop that leaves the lock file in place
file_drop_keep(m) == m

\* impl Drop for FileStorage, on an attached instance
file_drop(m) == FALSE

\* RedisStorage::lock_repo; f = "idx": get fails, f = "lock": set fails
redis_lock_repo(m, force, f) ==
    IF f = "idx" THEN Lk("Io", m, FALSE)
    ELSE IF m /\ ~force THEN Lk("RepoOpened", m, FALSE)
    ELSE IF f = "lock" THEN Lk("Io", m, FALSE)
    ELSE Lk("Ok", TRUE, TRUE)

\* RedisStorage::init
redis_init(m, f) == redis_lock_repo(m, FALSE, f)

\* RedisStorage::open
redis_open(m, force, f) == redis_lock_repo(m, force, f)

\* impl Drop for RedisStorage, on an attached instance
redis_drop(m) == FALSE

\* storage.init of Volume::init, by backend
storage_init(b, m, f) ==
    CASE b = "mem" -> mem_init(m)
      [] b = "file" -> file_init(m, f)
      [] OTHER -> redis_init(m, f)

\* storage.open of Volume::open, by backend
storage_open(b, m, force, f) ==
    CASE b = "mem" -> mem_open(m, force)
      [] b = "file" -> file_open(m, force, f)
      [] OTHER -> redis_open(m, force, f)

\* the drop of a volume's storage, by backend
storage_drop(b, m) ==
    CASE b = "mem" -> mem_drop(m)
      [] b = "file" -> file_drop(m)
      [] OTHER -> redis_drop(m)

LockFaults == {"none", "idx", "lock"}

Attached == {i \in Insts : inst[i] = "att"}

\* the variables after init or open of instance i with outcome o
Locked(i, o) ==
    /\ marker' = o.marker
    /\ inst' = [inst EXCEPT ![i] = IF o.att THEN "att" ELSE @]
    /\ UNCHANGED <<backend, auxVars, nsVars, fileVars, sbVars, walVars>>

\* Volume::init on instance i
StorageInit(i) ==
    /\ inst[i] = "new"
    /\ \E f \in LockFaults :
        LET o == storage_init(backend, marker, f)
        IN  /\ Locked(i, o)
            /\ exists' = (exists \/ o.res = "Ok")
            /\ UNCHANGED forced

\* Volume::open on instance i: the super block is loaded first
StorageOpen(i) ==
    /\ inst[i] = "new"
    /\ exists
    /\ \E force \in BOOLEAN, f \in LockFaults :
        /\ Locked(i, storage_open(backend, marker, force, f))
        /\ forced' = (forced \/ force)
        /\ UNCHANGED exists

\* instance i is dropped
StorageDrop(i) ==
    /\ inst[i] \in {"new", "att"}
    /\ marker' = IF inst[i] = "att" THEN storage_drop(backend, marker) ELSE marker
    /\ inst' = [inst EXCEPT ![i] = IF @ = "att" THEN "released" ELSE "gone"]
    /\ UNCHANGED <<exists, forced, backend, auxVars, nsVars, fileVars, sbVars, walVars>>

NextLock ==
    \/ \E i \in Insts : StorageInit(i)
    \/ \E i \in Insts : StorageOpen(i)
    \/ \E i \in Insts : StorageDrop(i)

\* lock_repo of the file and the redis storage in its two steps. The first
\* step tests the marker (lock_path.exists(), GET of the lock key): without
\* force a marker that is there ends the call with RepoOpened
lock_check(m, force) == IF m /\ ~force THEN "RepoOpened" ELSE "go on"

\* the second step writes the marker (open with create, SET) whether or not
\* it is there by now, and attaches
lock_create(m) == Lk("Ok", TRUE, TRUE)

\* instance i, in a process of its own, tests the marker in open(force = false)
LockCheck(i) ==
    /\ inst[i] = "new"
    /\ exists
    /\ inst' = [inst EXCEPT ![i] =
                   IF lock_check(marker, FALSE) = "RepoOpened" THEN "refused"
                   ELSE "checked"]
    /\ UNCHANGED <<marker, exists, forced>>
    /\ UNCHANGED <<backend, auxVars, nsVars, fileVars, sbVars, walVars>>

\* instance i writes the marker and returns Ok
LockCreate(i) ==
    /\ inst[i] = "checked"
    /\ Locked(i, lock_create(marker))
    /\ UNCHANGED <<exists, forced>>

\* an instance whose open was refused is dropped: it is not attached
LockGiveUp(i) ==
    /\ inst[i] = "refused"
    /\ inst' = [inst EXCEPT ![i] = "gone"]
    /\ UNCHANGED <<marker, exists, forced>>
    /\ UNCHANGED <<backend, auxVars, nsVars, fileVars, sbVars, walVars>>

NextRace ==
    \/ \E i \in Insts : LockCheck(i)
    \/ \E i \in Insts : LockCreate(i)
    \/ \E i \in Insts : LockGiveUp(i)
    \/ \E i \in Insts : StorageDrop(i)

\* Storage::open_with_root of the application on the root that holds the
\* vault: .sec is read or written, .repo_lock is removed, the repo is
\* opened, or created if it does not exist, and the process id is written
\* to .repo_lock; a failure panics
open_with_root(ex, m, f) ==
    IF f = "dir" THEN [res |-> "panic", marker |-> m, att |-> FALSE, exists |-> ex]
    ELSE LET o == IF ex THEN file_open(FALSE, FALSE, f) ELSE file_init(FALSE, f)
         IN  IF o.res # "Ok"
             THEN [res |-> "panic", marker |-> FALSE, att |-> FALSE, exists |-> ex]
             ELSE [res |-> "Ok", marker |-> TRUE, att |-> TRUE, exists |-> TRUE]

\* Storage number i is opened on the root
OpenWithRoot(i) ==
    /\ inst[i] = "new"
    /\ \E f \in LockFaults \cup {"dir"} :
           LET o == open_with_root(exists, marker, f)
           IN  /\ marker' = o.marker
               /\ exists' = o.exists
               /\ inst' = [inst EXCEPT ![i] = IF o.att THEN "att" ELSE "gone"]
    /\ UNCHANGED forced
    /\ UNCHANGED <<backend, auxVars, nsVars, fileVars, sbVars, walVars>>

NextVault ==
    \/ \E i \in Insts : OpenWithRoot(i)
    \/ \E i \in Insts : StorageDrop(i)

----------------------------------------------------------------------------
\* Super block: two stored copies, suffix 0 (primary) and 1 (secondary)

Pwds == {"pwd", "new_pwd"}
Payloads == {"payload_a", "payload_b"}

\* a copy that was never written, and one whose write did not complete
NoCopy == [st |-> "none", pwd |-> "", payload |-> ""]
Torn == [st |-> "torn", pwd |-> "", payload |-> ""]

\* SuperBlk::save encrypts the block under pwd
Sealed(pwd, payload) == [st |-> "ok", pwd |-> pwd, payload |-> payload]

\* variant of super_block_path that ignores the suffix
super_block_path_same(suffix) == 0

\* FileStorage::super_block_path: one file per suffix
super_block_path(suffix) == suffix

\* FileStorage::put_super_block, first half: the file is truncated
put_truncate(s, suffix) == [s EXCEPT ![super_block_path(suffix)] = Torn]

\* put_super_block as a whole (MemStorage, RedisStorage: one insert or set)
put_super_block(s, blk, suffix) == [s EXCEPT ![super_block_path(suffix)] = blk]

\* get_super_block
get_super_block(s, suffix) == s[super_block_path(suffix)]

\* a copy that decrypts and verifies under pwd
Valid(c, pwd) == c.st = "ok" /\ c.pwd = pwd

\* SuperBlk::load: the primary copy, else the secondary
SuperBlk_load(pwd, s) ==
    IF Valid(get_super_block(s, 0), pwd)
    THEN [res |-> "Ok", payload |-> get_super_block(s, 0).payload]
    ELSE IF Valid(get_super_block(s, 1), pwd)
    THEN [res |-> "Ok", payload |-> get_super_block(s, 1).payload]
    ELSE [res |-> "Err", payload |-> ""]

\* SuperBlk::save, without interruption: both copies, primary first
SuperBlk_save(s, blk) == put_super_block(put_super_block(s, blk, 0), blk, 1)

\* variant of Volume::init that stores an empty payload
Volume_init_blank(s, pwd, payload) == SuperBlk_save(s, Sealed(pwd, ""))

\* Volume::init: the payload is sealed into both copies
Volume_init(s, pwd, payload) == SuperBlk_save(s, Sealed(pwd, payload))

\* Version::repo_version: the volume version of this engine
repo_version == [major |-> 1, minor |-> 1, patch |-> 1]

\* the versions a stored volume can carry: each number up to MaxVerNum
MaxVerNum == 2
Versions == [major : 0 .. MaxVerNum, minor : 0 .. MaxVerNum, patch : 0 .. MaxVerNum]

\* variant of the match that also compares the patch number
match_exact(v) == v = repo_version

\* Version::match_repo_version
match_repo_version(v) ==
    v.major = repo_version.major /\ v.minor = repo_version.minor

\* Volume::open: the super block is loaded, its version checked, and its
\* payload returned
Volume_open(pwd, s) ==
    IF SuperBlk_load(pwd, s).res # "Ok" THEN SuperBlk_load(pwd, s)
    ELSE IF ~match_repo_version(volver) THEN [res |-> "WrongVersion", payload |-> ""]
    ELSE SuperBlk_load(pwd, s)

\* Volume::open as a whole on a storage of backend b: the super block is
\* loaded and its version checked before storage.open locks the repo
Volume_open_lock(b, m, pwd, s, force, f) ==
    IF Volume_open(pwd, s).res # "Ok" THEN Lk(Volume_open(pwd, s).res, m, FALSE)
    ELSE storage_open(b, m, force, f)

\* the drop of a storage by its is_attached flag
drop_storage(b, m, att) == IF att THEN storage_drop(b, m) ELSE m

\* Volume::open on instance i, with any password
VolumeOpen(i) ==
    /\ inst[i] = "new"
    /\ exists
    /\ \E pwd \in Pwds, force \in BOOLEAN, f \in LockFaults :
        LET o == Volume_open_lock(backend, marker, pwd, sb, force, f)
        IN  /\ marker' = o.marker
            /\ inst' = [inst EXCEPT ![i] =
                           IF o.res = "Ok" THEN "att"
                           ELSE IF o.att THEN "failed_att" ELSE "failed"]
            /\ forced' = (forced \/ (force /\ o.res = "Ok"))
    /\ UNCHANGED <<exists, backend, auxVars, nsVars, fileVars, sbVars, walVars>>

\* an instance whose open failed is dropped
FailedDrop(i) ==
    /\ inst[i] \in {"failed", "failed_att"}
    /\ marker' = drop_storage(backend, marker, inst[i] = "failed_att")
    /\ inst' = [inst EXCEPT ![i] = "dropped"]
    /\ UNCHANGED <<exists, forced, backend, auxVars, nsVars, fileVars, sbVars, walVars>>

\* an instance that holds the volume open is dropped
AttachedDrop(i) ==
    /\ inst[i] = "att"
    /\ StorageDrop(i)

NextOpen ==
    \/ \E i \in Insts : VolumeOpen(i)
    \/ \E i \in Insts : FailedDrop(i)
    \/ \E i \in Insts : AttachedDrop(i)

\* the steps of a save in progress: "t0", "w0", "t1", then done
NextStep(b, step) ==
    CASE step = "begin" -> IF b = "file" THEN "t0" ELSE "w0"
      [] step = "t0" -> "w0"
      [] step = "w0" -> IF b = "file" THEN "t1" ELSE "idle"
      [] OTHER -> "idle"

\* the stored copies after the save of blk has taken the step to
SaveStep(s, blk, to) ==
    CASE to = "t0" -> put_truncate(s, 0)
      [] to = "w0" -> put_super_block(s, blk, 0)
      [] to = "t1" -> put_truncate(s, 1)
      [] OTHER -> put_super_block(s, blk, 1)

\* Volume::init creates the volume
SbCreate ==
    /\ spc = "new"
    /\ \E pwd \in Pwds, payload \in Payloads :
        /\ sb' = Volume_init(sb, pwd, payload)
        /\ given' = [pwd |-> pwd, payload |-> payload]
    /\ spc' = "idle"
    /\ UNCHANGED <<newpwd, opened, backend, auxVars, nsVars, fileVars, lockVars, walVars>>

\* Volume::reset_password: load with the old password, then start the save
ResetPassword ==
    /\ spc = "idle"
    /\ \E old \in Pwds, new \in Pwds :
        /\ SuperBlk_load(old, sb).res = "Ok"
        /\ newpwd' = Sealed(new, SuperBlk_load(old, sb).payload)
    /\ spc' = "begin"
    /\ UNCHANGED <<sb, given, opened, backend, auxVars, nsVars, fileVars, lockVars, walVars>>

\* the save of reset_password takes its next step
SaveNext ==
    /\ spc \in {"begin", "t0", "w0", "t1"}
    /\ spc' = NextStep(backend, spc)
    /\ sb' = SaveStep(sb, newpwd, IF spc' = "idle" THEN "w1" ELSE spc')
    /\ newpwd' = IF spc' = "idle" THEN None ELSE newpwd
    /\ UNCHANGED <<given, opened, backend, auxVars, nsVars, fileVars, lockVars, walVars>>

\* the process stops: at any step of a save, or with the volume idle
SbCrash ==
    /\ spc \notin {"new", "down"}
    /\ spc' = "down"
    /\ newpwd' = None
    /\ UNCHANGED <<sb, given, opened, backend, auxVars, nsVars, fileVars, lockVars, walVars>>

\* Volume::open after the process stopped
SbOpen ==
    /\ spc = "down"
    /\ \E pwd \in Pwds :
        /\ opened' = Volume_open(pwd, sb)
        /\ spc' = IF opened'.res = "Ok" THEN "idle" ELSE "down"
    /\ UNCHANGED <<sb, given, newpwd, backend, auxVars, nsVars, fileVars, lockVars, walVars>>

NextSb == SbCreate \/ ResetPassword \/ SaveNext \/ SbCrash \/ SbOpen
----------------------------------------------------------------------------
\* Transactions: staging, the WAL record, applying, recovery on open

\* objects a transaction can mutate
MaxObj == 2
\* transactions begun in one behaviour
MaxTx == 2
Objs == 1 .. MaxObj
\* the sets of objects a transaction mutates: the first n objects
WriteSets == {1 .. n : n \in Objs}

\* the WAL record of transaction k; ok: it was written completely
WalRec(k, objs, ok) == [txid |-> k, objs |-> objs, ok |-> ok]

\* the transaction that is staged or committing
curr_tx == Len(txobjs)

\* FileStorage::put_wal, first half: the file is created and truncated
put_wal_truncate(w, k, objs) == w \cup {WalRec(k, objs, FALSE)}

\* put_wal as a whole
put_wal(w, k, objs) == (w \ {WalRec(k, objs, FALSE)}) \cup {WalRec(k, objs, TRUE)}

\* del_wal
del_wal(w, k) == {r \in w : r.txid # k}

\* the newest complete record that mutates o, or d[o] if none is newer
Redo(d, w, o) ==
    LET ks == {r.txid : r \in {q \in w : q.ok /\ o \in q.objs}} \cup {d[o]}
    IN  CHOOSE k \in ks : \A j \in ks : j <= k

\* TxMgr::open: complete records are replayed, then every record is deleted
TxMgr_open(d, w) == [disk |-> [o \in Objs |-> Redo(d, w, o)], wal |-> {}]

\* Fs::create: Volume::init, then the initial transaction
Fs_create(s, pwd, payload) ==
    [sb |-> Volume_init(s, pwd, payload), disk |-> [o \in Objs |-> 0], wal |-> {}]

\* variant of Fs::open that does not open the transaction manager
Fs_open_no_txmgr(pwd, s, d, w) ==
    [res |-> Volume_open(pwd, s).res, payload |-> Volume_open(pwd, s).payload,
     disk |-> d, wal |-> w]

\* Fs::open: Volume::open, then TxMgr::open
Fs_open(pwd, s, d, w) ==
    LET v == Volume_open(pwd, s)
        t == TxMgr_open(d, w)
    IN  IF v.res # "Ok" THEN [res |-> v.res, payload |-> "", disk |-> d, wal |-> w]
        ELSE [res |-> "Ok", payload |-> v.payload, disk |-> t.disk, wal |-> t.wal]

\* Fs::create
RepoCreate ==
    /\ pc = "new"
    /\ \E pwd \in Pwds, payload \in Payloads :
        LET c == Fs_create(sb, pwd, payload)
        IN  /\ sb' = c.sb
            /\ disk' = c.disk
            /\ wal' = c.wal
            /\ given' = [pwd |-> pwd, payload |-> payload]
    /\ pc' = "idle"
    /\ UNCHANGED <<todo, txobjs, logged, acked, spc, newpwd, opened>>
    /\ UNCHANGED <<backend, auxVars, nsVars, fileVars, lockVars>>

\* TxMgr::begin_trans and TxHandle::run: mutations are staged in memory
Stage ==
    /\ pc = "idle"
    /\ Len(txobjs) < MaxTx
    /\ \E objs \in WriteSets : txobjs' = Append(txobjs, objs)
    /\ pc' = "staged"
    /\ UNCHANGED <<disk, wal, todo, logged, acked, backend, auxVars, nsVars, fileVars, lockVars, sbVars>>

\* a staged mutation returned an error: the transaction is aborted
Abort ==
    /\ pc = "staged"
    /\ pc' = "idle"
    /\ UNCHANGED <<disk, wal, todo, txobjs, logged, acked>>
    /\ UNCHANGED <<backend, auxVars, nsVars, fileVars, lockVars, sbVars>>

\* commit, FileStorage: the WAL file exists but is not written yet
WalTruncate ==
    /\ pc = "staged"
    /\ backend = "file"
    /\ wal' = put_wal_truncate(wal, curr_tx, txobjs[curr_tx])
    /\ pc' = "logging"
    /\ UNCHANGED <<disk, todo, txobjs, logged, acked, backend, auxVars, nsVars, fileVars, lockVars, sbVars>>

\* commit: the WAL record is written completely
WalWrite ==
    /\ \/ pc = "logging"
       \/ pc = "staged" /\ backend # "file"
    /\ wal' = put_wal(wal, curr_tx, txobjs[curr_tx])
    /\ logged' = logged \cup {curr_tx}
    /\ todo' = txobjs[curr_tx]
    /\ pc' = "applying"
    /\ UNCHANGED <<disk, txobjs, acked, backend, auxVars, nsVars, fileVars, lockVars, sbVars>>

\* commit: writing the WAL record fails, the transaction is aborted
WalFail ==
    /\ pc \in {"staged", "logging"}
    /\ pc' = "idle"
    /\ UNCHANGED <<disk, wal, todo, txobjs, logged, acked>>
    /\ UNCHANGED <<backend, auxVars, nsVars, fileVars, lockVars, sbVars>>

\* commit: one mutation of the logged transaction reaches the storage
Apply ==
    /\ pc = "applying"
    /\ \E o \in todo :
        /\ disk' = [disk EXCEPT ![o] = curr_tx]
        /\ todo' = todo \ {o}
    /\ UNCHANGED <<wal, pc, txobjs, logged, acked, backend, auxVars, nsVars, fileVars, lockVars, sbVars>>

\* commit: all is applied; the record is deleted, or the delete fails
WalDelete ==
    /\ pc = "applying"
    /\ todo = {}
    /\ wal' \in {del_wal(wal, curr_tx), wal}
    /\ acked' = acked \cup {curr_tx}
    /\ pc' = "idle"
    /\ UNCHANGED <<disk, todo, txobjs, logged, backend, auxVars, nsVars, fileVars, lockVars, sbVars>>

\* the process stops with a transaction staged or in commit
Crash ==
    /\ pc \in {"staged", "logging", "applying"}
    /\ pc' = "down"
    /\ todo' = {}
    /\ UNCHANGED <<disk, wal, txobjs, logged, acked, backend, auxVars, nsVars, fileVars, lockVars, sbVars>>

\* the repo is dropped outside a commit: what was staged is lost
RepoClose ==
    /\ pc \in {"idle", "staged"}
    /\ pc' = "closed"
    /\ UNCHANGED <<disk, wal, todo, txobjs, logged, acked>>
    /\ UNCHANGED <<backend, auxVars, nsVars, fileVars, lockVars, sbVars>>

\* Fs::open
RepoOpen ==
    /\ pc \in {"down", "closed"}
    /\ \E pwd \in Pwds :
        LET o == Fs_open(pwd, sb, disk, wal)
        IN  /\ opened' = [res |-> o.res, payload |-> o.payload]
            /\ disk' = o.disk
            /\ wal' = o.wal
            /\ pc' = IF o.res = "Ok" THEN "idle" ELSE pc
    /\ UNCHANGED <<todo, txobjs, logged, acked, sb, spc, given, newpwd>>
    /\ UNCHANGED <<backend, auxVars, nsVars, fileVars, lockVars>>

NextWal ==
    \/ RepoCreate
    \/ Stage
    \/ Abort
    \/ WalTruncate
    \/ WalWrite
    \/ WalFail
    \/ Apply
    \/ WalDelete
    \/ Crash
    \/ RepoClose
    \/ RepoOpen

----------------------------------------------------------------------------
\* Fs: the namespace, as fnodes that name their parent directory

\* fnodes other than the root that one behaviour creates
MaxNode == 3
\* Fs.root
Root == 0
NodeIds == 1 .. MaxNode
Names == {"a", "b"}
FileTypes == {"File", "Dir"}

\* the absolute paths handed to the calls, as the sequence of their
\* components: "/", "/x" and "/x/y"
Paths ==
    {<<>>} \cup {<<x>> : x \in Names} \cup {<<x, y>> : x \in Names, y \in Names}

RootDir == [st |-> "live", type |-> "Dir", parent |-> Root, name |-> ""]
Free == [st |-> "free", type |-> "Dir", parent |-> Root, name |-> ""]

\* the outcome of a call on the namespace
NsOut(res, ns) == [res |-> res, ns |-> ns]

\* Path::parent, Path::file_name and Path::starts_with
parent_of(path) == SubSeq(path, 1, Len(path) - 1)
file_name(path) == path[Len(path)]
starts_with(path, base) ==
    Len(base) <= Len(path) /\ SubSeq(path, 1, Len(base)) = base

\* the children of directory id, and Fnode::children_cnt, Fnode::has_child
children(ns, id) == {k \in NodeIds : ns[k].st = "live" /\ ns[k].parent = id}
children_cnt(ns, id) == Cardinality(children(ns, id))
has_child(ns, id, name) == \E k \in children(ns, id) : ns[k].name = name

\* Fs::resolve: Fnode::child along the components, from fnode id
RECURSIVE walk(_, _, _)
walk(ns, id, path) ==
    IF path = <<>> THEN [res |-> "Ok", id |-> id]
    ELSE IF ns[id].type # "Dir" THEN [res |-> "NotDir", id |-> id]
    ELSE IF ~has_child(ns, id, Head(path)) THEN [res |-> "NotFound", id |-> id]
    ELSE walk(ns, CHOOSE k \in children(ns, id) : ns[k].name = Head(path),
              Tail(path))

resolve(ns, path) == walk(ns, Root, path)

\* Fs::resolve_parent
resolve_parent(ns, path) ==
    IF path = <<>> THEN [res |-> "IsRoot", id |-> Root, name |-> ""]
    ELSE [res |-> resolve(ns, parent_of(path)).res,
          id |-> resolve(ns, parent_of(path)).id,
          name |-> file_name(path)]

\* Fnode::remove_from_parent and make_del
make_del(ns, id) == [ns EXCEPT ![id] = [Free EXCEPT !.st = "del", !.type = ns[id].type]]

\* Fnode::add_child
add_child(ns, parent, id, name) ==
    [ns EXCEPT ![id].parent = parent, ![id].name = name]

\* Fnode::new_under; "Full" when the model has no fnode left
new_under(ns, parent, name, ftype) ==
    LET free == {k \in NodeIds : ns[k].st = "free"}
    IN  IF free = {} THEN NsOut("Full", ns)
        ELSE NsOut("Ok", [ns EXCEPT ![CHOOSE k \in free : \A j \in free : k <= j] =
                 [st |-> "live", type |-> ftype, parent |-> parent, name |-> name]])

\* Fs::create_fnode
create_fnode(ns, rdonly, path, ftype) ==
    IF rdonly THEN NsOut("ReadOnly", ns)
    ELSE LET p == resolve_parent(ns, path)
         IN  IF p.res # "Ok" THEN NsOut(p.res, ns)
             ELSE IF ns[p.id].type # "Dir" THEN NsOut("NotDir", ns)
             ELSE IF has_child(ns, p.id, p.name) THEN NsOut("AlreadyExists", ns)
             ELSE new_under(ns, p.id, p.name, ftype)

\* variant of remove_file without the read_only check
remove_file_unchecked(ns, rdonly, path) ==
    LET r == resolve(ns, path)
    IN  IF r.res # "Ok" THEN NsOut(r.res, ns)
        ELSE IF ns[r.id].type # "File" THEN NsOut("NotFile", ns)
        ELSE NsOut("Ok", make_del(ns, r.id))

\* Fs::remove_file
remove_file(ns, rdonly, path) ==
    IF rdonly THEN NsOut("ReadOnly", ns)
    ELSE LET r == resolve(ns, path)
         IN  IF r.res # "Ok" THEN NsOut(r.res, ns)
             ELSE IF ns[r.id].type # "File" THEN NsOut("NotFile", ns)
             ELSE NsOut("Ok", make_del(ns, r.id))

\* variant of remove_dir without the check for children
remove_dir_any(ns, rdonly, path) ==
    IF rdonly THEN NsOut("ReadOnly", ns)
    ELSE LET r == resolve(ns, path)
         IN  IF r.res # "Ok" THEN NsOut(r.res, ns)
             ELSE IF ns[r.id].type # "Dir" THEN NsOut("NotDir", ns)
             ELSE IF r.id = Root THEN NsOut("IsRoot", ns)
             ELSE NsOut("Ok", make_del(ns, r.id))

\* Fs::remove_dir
remove_dir(ns, rdonly, path) ==
    IF rdonly THEN NsOut("ReadOnly", ns)
    ELSE LET r == resolve(ns, path)
         IN  IF r.res # "Ok" THEN NsOut(r.res, ns)
             ELSE IF ns[r.id].type # "Dir" THEN NsOut("NotDir", ns)
             ELSE IF r.id = Root THEN NsOut("IsRoot", ns)
             ELSE IF children_cnt(ns, r.id) > 0 THEN NsOut("NotEmpty", ns)
             ELSE NsOut("Ok", make_del(ns, r.id))

\* Fs::rename, after the two paths are resolved
rename_checks(ns, src, tgt, found) ==
    IF src = Root THEN "IsRoot"
    ELSE IF ~found THEN "Ok"
    ELSE IF tgt = Root THEN "IsRoot"
    ELSE IF ns[src].type = "File" /\ ns[tgt].type = "Dir" THEN "IsDir"
    ELSE IF ns[src].type = "Dir" /\ ns[tgt].type = "File" THEN "NotDir"
    ELSE IF ns[src].type = "Dir" /\ children_cnt(ns, tgt) > 0 THEN "NotEmpty"
    ELSE "Ok"

\* variant of rename without the check that to lies inside from
rename_into_self(ns, rdonly, from, to) ==
    IF rdonly THEN NsOut("ReadOnly", ns)
    ELSE IF from = to THEN NsOut("Ok", ns)
    ELSE LET s == resolve(ns, from)
             p == resolve_parent(ns, to)
         IN  IF s.res # "Ok" THEN NsOut(s.res, ns)
             ELSE IF s.id = Root THEN NsOut("IsRoot", ns)
             ELSE IF p.res # "Ok" THEN NsOut(p.res, ns)
             ELSE NsOut("Ok", add_child(ns, p.id, s.id, p.name))

\* Fs::rename
rename(ns, rdonly, from, to) ==
    IF rdonly THEN NsOut("ReadOnly", ns)
    ELSE IF from = to THEN NsOut("Ok", ns)
    ELSE IF starts_with(to, from) THEN NsOut("InvalidArgument", ns)
    ELSE LET s == resolve(ns, from)
             g == resolve(ns, to)
             found == g.res = "Ok"
             p == resolve_parent(ns, to)
         IN  IF s.res # "Ok" THEN NsOut(s.res, ns)
             ELSE IF g.res \notin {"Ok", "NotFound"} THEN NsOut(g.res, ns)
             ELSE IF rename_checks(ns, s.id, g.id, found) # "Ok"
                  THEN NsOut(rename_checks(ns, s.id, g.id, found), ns)
             ELSE IF p.res # "Ok" THEN NsOut(p.res, ns)
             ELSE NsOut("Ok",
                      add_child(IF found THEN make_del(ns, g.id) ELSE ns,
                                p.id, s.id, p.name))

\* Fs::copy; the version added to the target is not part of the namespace
copy(ns, rdonly, from, to) ==
    IF rdonly THEN NsOut("ReadOnly", ns)
    ELSE LET s == resolve(ns, from)
             g == resolve(ns, to)
         IN  IF s.res # "Ok" THEN NsOut(s.res, ns)
             ELSE IF ns[s.id].type # "File" THEN NsOut("NotFile", ns)
             ELSE IF g.res = "Ok"
                  THEN IF g.id = s.id THEN NsOut("Ok", ns)
                       ELSE IF ns[g.id].type # "File" THEN NsOut("NotFile", ns)
                       ELSE NsOut("Ok", ns)
             ELSE IF g.res = "NotFound" THEN create_fnode(ns, rdonly, to, "File")
             ELSE NsOut(g.res, ns)

\* the children of a directory in the order of read_dir
RECURSIVE in_order(_, _)
in_order(ns, kids) ==
    IF kids = {} THEN <<>>
    ELSE LET k == CHOOSE k \in kids : \A j \in kids : k <= j
         IN  <<k>> \o in_order(ns, kids \ {k})

\* Fs::copy_dir_all, and its loop over the entries of from
RECURSIVE copy_dir_all(_, _, _, _)
RECURSIVE copy_entries(_, _, _, _)
copy_entries(ns, rest, from, to) ==
    IF rest = <<>> THEN NsOut("Ok", ns)
    ELSE LET k == Head(rest)
             o == IF ns[k].type = "File"
                  THEN copy(ns, FALSE, Append(from, ns[k].name), Append(to, ns[k].name))
                  ELSE copy_dir_all(ns, FALSE, Append(from, ns[k].name),
                                    Append(to, ns[k].name))
         IN  IF o.res # "Ok" THEN o ELSE copy_entries(o.ns, Tail(rest), from, to)

copy_dir_all(ns, rdonly, from, to) ==
    IF rdonly THEN NsOut("ReadOnly", ns)
    ELSE IF from = to THEN NsOut("Ok", ns)
    ELSE IF starts_with(to, from) THEN NsOut("InvalidArgument", ns)
    ELSE LET s == resolve(ns, from)
             g == resolve(ns, to)
             made == IF g.res = "NotFound"
                     THEN create_fnode(ns, rdonly, to, "Dir") ELSE NsOut(g.res, ns)
         IN  IF s.res # "Ok" THEN NsOut(s.res, ns)
             ELSE IF ns[s.id].type # "Dir" THEN NsOut("NotDir", ns)
             ELSE IF g.res = "Ok" /\ ns[g.id].type # "Dir" THEN NsOut("NotDir", ns)
             ELSE IF made.res # "Ok" THEN made
             ELSE copy_entries(made.ns, in_order(made.ns, children(made.ns, s.id)),
                               from, to)

\* Fs::create_dir_all
RECURSIVE create_dir_all(_, _, _)
create_dir_all(ns, rdonly, path) ==
    LET c == create_fnode(ns, rdonly, path, "Dir")
    IN  IF c.res # "NotFound" THEN c
        ELSE IF path = <<>> THEN NsOut("IsRoot", ns)
        ELSE LET p == create_dir_all(ns, rdonly, parent_of(path))
             IN  IF p.res # "Ok" THEN p
                 ELSE create_fnode(p.ns, rdonly, path, "Dir")

\* Fs::remove_dir_all, and its loop over the entries of path; every
\* entry is removed in a transaction of its own
RECURSIVE remove_dir_all(_, _, _)
RECURSIVE remove_entries(_, _, _, _)
remove_entries(ns, rdonly, rest, path) ==
    IF rest = <<>> THEN NsOut("Ok", ns)
    ELSE LET k == Head(rest)
             o == IF ns[k].type = "File"
                  THEN remove_file(ns, rdonly, Append(path, ns[k].name))
                  ELSE remove_dir_all(ns, rdonly, Append(path, ns[k].name))
         IN  IF o.res # "Ok" THEN o
             ELSE remove_entries(o.ns, rdonly, Tail(rest), path)

remove_dir_all(ns, rdonly, path) ==
    LET r == resolve(ns, path)
    IN  IF r.res # "Ok" THEN NsOut(r.res, ns)
        ELSE IF ns[r.id].type # "Dir" THEN NsOut("NotDir", ns)
        ELSE LET e == remove_entries(ns, rdonly,
                                     in_order(ns, children(ns, r.id)), path)
                 d == remove_dir(e.ns, rdonly, path)
             IN  IF e.res # "Ok" THEN e
                 ELSE IF d.res = "IsRoot" THEN NsOut("Ok", d.ns)
                 ELSE d

\* Fs::reset_password, the save of the super block taken as one step
Fs_reset_password(rdonly, s, old, new) ==
    IF rdonly THEN [res |-> "ReadOnly", sb |-> s]
    ELSE IF SuperBlk_load(old, s).res # "Ok" THEN [res |-> "Err", sb |-> s]
    ELSE [res |-> "Ok",
          sb |-> SuperBlk_save(s, Sealed(new, SuperBlk_load(old, s).payload))]

\* File::metadata, File::history and File::curr_version through a handle
\* on fnode n: the fnode is read whatever became of it
File_metadata(n) == IF check_closed THEN "RepoClosed" ELSE "Ok"
File_history(n) == IF check_closed THEN "RepoClosed" ELSE "Ok"
File_curr_version(n) == IF check_closed THEN "RepoClosed" ELSE "Ok"

\* the variables after a call on the namespace with outcome o
NsDone(o) ==
    /\ o.res # "Full"
    /\ nodes' = o.ns
    /\ UNCHANGED <<ro, held, backend, auxVars, fileVars, lockVars, sbVars, walVars>>

CreateFnode ==
    \E path \in Paths, ftype \in FileTypes :
        NsDone(create_fnode(nodes, ro, path, ftype))

RemoveFile == \E path \in Paths : NsDone(remove_file(nodes, ro, path))

RemoveDir == \E path \in Paths : NsDone(remove_dir(nodes, ro, path))

Rename == \E from \in Paths, to \in Paths : NsDone(rename(nodes, ro, from, to))

Copy == \E from \in Paths, to \in Paths : NsDone(copy(nodes, ro, from, to))

CopyDirAll ==
    \E from \in Paths, to \in Paths : NsDone(copy_dir_all(nodes, ro, from, to))

CreateDirAll == \E path \in Paths : NsDone(create_dir_all(nodes, ro, path))

RemoveDirAll == \E path \in Paths : NsDone(remove_dir_all(nodes, ro, path))

FsResetPassword ==
    /\ \E old \in Pwds, new \in Pwds :
           sb' = Fs_reset_password(ro, sb, old, new).sb
    /\ UNCHANGED <<spc, given, newpwd, opened>>
    /\ UNCHANGED <<nsVars, backend, auxVars, fileVars, lockVars, walVars>>

\* Fs::open_fnode, kept by a File
OpenFnode ==
    /\ \E path \in Paths :
        /\ resolve(nodes, path).res = "Ok"
        /\ nodes[resolve(nodes, path).id].type = "File"
        /\ held' = held \cup {resolve(nodes, path).id}
    /\ UNCHANGED <<nodes, ro, backend, auxVars, fileVars, lockVars, sbVars, walVars>>

\* the Fs and its Files are dropped, then Fs::open with read_only or without
FsReopen ==
    /\ ro' \in BOOLEAN
    /\ held' = {}
    /\ UNCHANGED <<nodes, backend, auxVars, fileVars, lockVars, sbVars, walVars>>

\* an Fs opened for writing, and Files opened on it
NextNs ==
    \/ CreateFnode
    \/ RemoveFile
    \/ RemoveDir
    \/ Rename
    \/ OpenFnode

\* an Fs that is opened again and again, read-only or for writing
NextRo ==
    \/ CreateFnode
    \/ RemoveFile
    \/ RemoveDir
    \/ Rename
    \/ Copy
    \/ CopyDirAll
    \/ FsResetPassword
    \/ FsReopen

\* every call that changes the namespace, on an Fs opened for writing
NextTree ==
    \/ CreateFnode
    \/ CreateDirAll
    \/ Copy
    \/ CopyDirAll
    \/ RemoveFile
    \/ RemoveDir
    \/ RemoveDirAll
    \/ Rename

----------------------------------------------------------------------------
\* Crypto: authenticated encryption of a message under a key (crypto.rs)

ATAG_SIZE == 16
AES_NONCE_SIZE == 28
XCHACHA_NONCE_SIZE == 24

\* longest message that is encrypted
MaxMsg == 2
\* u8, scaled down to one bit
Bytes == {0, 1}
Byte == Cardinality(Bytes)
Keys == {0, 1}
Ads == {<<>>, <<1>>}
Msgs == UNION {[1 .. n -> Bytes] : n \in 0 .. MaxMsg}
\* Crypto::random_buf on a Nonce: AES_NONCE_SIZE random bytes, here all zero
\* but for at most one byte in the part either cipher uses
Nonces == {[i \in 1 .. AES_NONCE_SIZE |-> IF i = k THEN 1 ELSE 0] :
           k \in {0, 1, XCHACHA_NONCE_SIZE}}
Ciphers == {"Xchacha", "Aes"}
\* isize::MAX, the largest capacity a Vec can have
ISIZE_MAX == (U64 \div 2) - 1

RECURSIVE SumTo(_, _)
SumTo(s, n) == IF n = 0 THEN 0 ELSE s[n] + SumTo(s, n - 1)
Sum(s) == SumTo(s, Len(s))

\* the AEAD primitive of libsodium, as a stream cipher with a checksum that
\* depends on every byte of key, nonce, associated data and cipher text
aead_tag(c, ad, nonce, key) ==
    (key + Sum(nonce) + Sum(ad) + Len(ad) + Sum(c) + Len(c)) % Byte
aead_stream(nonce, key) == (key + Sum(nonce)) % Byte
\* the sequence of ATAG_SIZE bytes of a tag
tag_bytes(t) == [j \in 1 .. ATAG_SIZE |-> t]
\* crypto_aead_*_encrypt: the encrypted message followed by the tag
aead_encrypt(msg, ad, nonce, key) ==
    CHOOSE sealed \in
        {[i \in 1 .. Len(msg) |-> (msg[i] + ks) % Byte]
            \o tag_bytes(aead_tag([i \in 1 .. Len(msg) |-> (msg[i] + ks) % Byte],
                                  ad, nonce, key)) :
         ks \in {aead_stream(nonce, key)}} : TRUE
\* crypto_aead_*_decrypt: -1 for an input shorter than the tag or a wrong tag
aead_decrypt(sealed, ad, nonce, key) ==
    IF Len(sealed) < ATAG_SIZE THEN [rc |-> -1, msg |-> <<>>]
    ELSE LET n == Len(sealed) - ATAG_SIZE
             c == SubSeq(sealed, 1, n)
             tag == SubSeq(sealed, n + 1, Len(sealed))
         IN  IF \E t \in {aead_tag(c, ad, nonce, key)} : tag # tag_bytes(t)
             THEN [rc |-> -1, msg |-> <<>>]
             ELSE [rc |-> 0,
                   msg |-> CHOOSE m \in
                       {[i \in 1 .. n |-> (c[i] + Byte - ks) % Byte] :
                        ks \in {aead_stream(nonce, key)}} : TRUE]

\* Crypto::nonce_size
nonce_size(cipher) ==
    IF cipher = "Xchacha" THEN XCHACHA_NONCE_SIZE ELSE AES_NONCE_SIZE

\* Crypto::extend_nonce: the sub-key comes from the first 16 bytes of the
\* nonce and the key, the sub-nonce is the rest of the nonce
extend_nonce(nonce, key) ==
    [subnonce |-> SubSeq(nonce, 17, Len(nonce)),
     subkey |-> (key + Sum(SubSeq(nonce, 1, 16))) % Byte]

\* Crypto::encrypted_len
encrypted_len(cipher, msglen) == nonce_size(cipher) + ATAG_SIZE + msglen

\* Crypto::decrypted_len: a subtraction of usize values, which panics on
\* underflow in a build with overflow checks and wraps in a build without
decrypted_len(cipher, checks, ctxt_len) ==
    IF ctxt_len >= nonce_size(cipher) + ATAG_SIZE
    THEN [panic |-> FALSE, len |-> ctxt_len - nonce_size(cipher) - ATAG_SIZE]
    ELSE IF checks THEN [panic |-> TRUE, len |-> 0]
    ELSE [panic |-> FALSE,
          len |-> (ctxt_len + U64 - nonce_size(cipher) - ATAG_SIZE) % U64]

\* variant of encrypt_raw that leaves the head of the buffer as allocated
encrypt_raw_no_nonce(cipher, msg, key, ad, nonce) ==
    LET used == SubSeq(nonce, 1, nonce_size(cipher))
    IN  [i \in 1 .. nonce_size(cipher) |-> 0] \o aead_encrypt(msg, ad, used, key)

\* Crypto::encrypt_raw: the message is sealed behind the place of the nonce,
\* then the nonce is copied in front of it
encrypt_raw(cipher, msg, key, ad, nonce) ==
    LET used == SubSeq(nonce, 1, nonce_size(cipher))
        ext == extend_nonce(used, key)
    IN  IF cipher = "Xchacha"
        THEN used \o aead_encrypt(msg, ad, used, key)
        ELSE used \o aead_encrypt(msg, ad, ext.subnonce, ext.subkey)

\* Crypto::encrypt_with_ad
encrypt_with_ad(cipher, msg, key, ad, nonce) ==
    encrypt_raw(cipher, msg, key, ad, nonce)

\* Crypto::decrypt_raw: the nonce is the head of the cipher text (a slice
\* that panics when the text is shorter), the rest goes to the primitive
decrypt_raw(cipher, ctxt, key, ad) ==
    IF Len(ctxt) < nonce_size(cipher) THEN [res |-> "panic", msg |-> <<>>]
    ELSE LET nonce == SubSeq(ctxt, 1, nonce_size(cipher))
             sealed == SubSeq(ctxt, nonce_size(cipher) + 1, Len(ctxt))
             ext == extend_nonce(nonce, key)
             out == IF cipher = "Xchacha"
                    THEN aead_decrypt(sealed, ad, nonce, key)
                    ELSE aead_decrypt(sealed, ad, ext.subnonce, ext.subkey)
         IN  IF out.rc = 0 THEN [res |-> "Ok", msg |-> out.msg]
             ELSE [res |-> "Decrypt", msg |-> <<>>]

\* Crypto::decrypt_with_ad: a buffer of decrypted_len bytes is allocated
\* (a capacity beyond isize::MAX panics), then decrypt_raw fills it
decrypt_with_ad(cipher, checks, ctxt, key, ad) ==
    LET dl == decrypted_len(cipher, checks, Len(ctxt))
    IN  IF dl.panic \/ dl.len > ISIZE_MAX THEN [res |-> "panic", msg |-> <<>>]
        ELSE decrypt_raw(cipher, ctxt, key, ad)

\* Crypto::decrypt
decrypt(cipher, checks, ctxt, key) == decrypt_with_ad(cipher, checks, ctxt, key, <<>>)

\* the text with byte i replaced by b
Changed(text, i, b) == [text EXCEPT ![i] = b]

cryFrame == <<fileVars, backend, lockVars, sbVars, walVars, nsVars, volver, uriVars,
              kvVars, appVars, extVars>>

\* nothing was encrypted
IdleCry ==
    /\ cry = [cipher |-> "Xchacha", checks |-> FALSE, msg |-> <<>>, key |-> 0,
              ad |-> <<>>, nonce |-> <<>>, out |-> <<>>]
    /\ recv = <<>>
    /\ dec = [res |-> "none", msg |-> <<>>]

\* a message was encrypted by a Crypto of either cipher, in either build
InitCry ==
    /\ \E cipher \in Ciphers, checks \in BOOLEAN, msg \in Msgs, key \in Keys,
          ad \in Ads, nonce \in Nonces :
           cry = [cipher |-> cipher, checks |-> checks, msg |-> msg, key |-> key,
                  ad |-> ad, nonce |-> nonce,
                  out |-> encrypt_with_ad(cipher, msg, key, ad, nonce)]
    /\ recv = cry.out
    /\ dec = [res |-> "none", msg |-> <<>>]

\* one byte of the cipher text is changed on its way
Tamper ==
    /\ recv = cry.out
    /\ \E i \in 1 .. Len(recv) : \E b \in Bytes \ {recv[i]} :
           recv' = Changed(recv, i, b)
    /\ dec' = [res |-> "none", msg |-> <<>>]
    /\ UNCHANGED <<cry, cryFrame>>

\* the cipher text is cut short on its way
Truncate ==
    /\ recv = cry.out
    /\ \E n \in 0 .. Len(recv) - 1 : recv' = SubSeq(recv, 1, n)
    /\ dec' = [res |-> "none", msg |-> <<>>]
    /\ UNCHANGED <<cry, cryFrame>>

\* decrypt_with_ad on what arrived, with the key and the associated data of
\* the encryption
DecryptWithAd ==
    /\ dec.res = "none"
    /\ dec' = decrypt_with_ad(cry.cipher, cry.checks, recv, cry.key, cry.ad)
    /\ UNCHANGED <<cry, recv, cryFrame>>

\* decrypt on what arrived, with any key and no associated data
Decrypt ==
    /\ dec.res = "none"
    /\ \E key \in Keys : dec' = decrypt(cry.cipher, cry.checks, recv, key)
    /\ UNCHANGED <<cry, recv, cryFrame>>

NextCry == Tamper \/ Truncate \/ DecryptWithAd \/ Decrypt

----------------------------------------------------------------------------
\* Fs: the volume URI in the log lines of Fs::create and Fs::open (fs.rs)

\* longest credentials in a URI, in characters
MaxCred == 2
\* a URI is a sequence of characters; a scheme name counts as one character
Schemes == {"redis", "zbox", "file", "mem"}
\* schemes whose location may start with credentials, closed by '@'
CredSchemes == {"redis", "zbox"}
CredChars == {"s", "@"}
Creds == UNION {[1 .. n -> CredChars] : n \in 1 .. MaxCred}
Hosts == {<<"h">>, <<"h", "/", "p">>}
\* a local path may hold '@' itself
LocalPaths == Hosts \cup {<<"@">>, <<"p", "@", "q">>}
Mask == <<"*", "*", "*">>

\* the URIs Volume::new accepts, as their parts: redis://[:<passwd>@]<host>,
\* zbox://<access key>@<repo>, file://<path>, mem://<name>
Uris ==
    {[scheme |-> s, creds |-> c, host |-> h] :
        s \in CredSchemes, c \in Creds \cup {<<>>}, h \in Hosts}
    \cup {[scheme |-> s, creds |-> <<>>, host |-> h] :
        s \in Schemes \ CredSchemes, h \in LocalPaths}

\* the string of a URI
uri_text(u) ==
    <<u.scheme, ":", "/", "/">>
        \o (IF u.creds = <<>> THEN <<>> ELSE u.creds \o <<"@">>) \o u.host

\* str::find of one character: the first index (from 0), or -1 for None
find_char(s, c) ==
    IF \E i \in 1 .. Len(s) : s[i] = c
    THEN (CHOOSE i \in 1 .. Len(s) : s[i] = c /\ \A j \in 1 .. i - 1 : s[j] # c) - 1
    ELSE -1

\* str::find of "://"
find_sep(s) ==
    LET at(i) == i + 2 <= Len(s) /\ s[i] = ":" /\ s[i + 1] = "/" /\ s[i + 2] = "/"
    IN  IF \E i \in 1 .. Len(s) : at(i)
        THEN (CHOOSE i \in 1 .. Len(s) : at(i) /\ \A j \in 1 .. i - 1 : ~at(j)) - 1
        ELSE -1

\* String::replace_range(begin..end, with)
replace_range(s, begin, end, with) ==
    SubSeq(s, 1, begin) \o with \o SubSeq(s, end + 1, Len(s))

\* mask_uri: what lies between "://" and the first '@' becomes "***"; the
\* unwrap panics without "://", replace_range panics on a range that ends
\* before it begins
mask_uri(s) ==
    LET end == find_char(s, "@")
        begin == find_sep(s) + 3
    IN  IF end = -1 THEN [panic |-> FALSE, text |-> s]
        ELSE IF find_sep(s) = -1 \/ begin > end THEN [panic |-> TRUE, text |-> <<>>]
        ELSE [panic |-> FALSE, text |-> replace_range(s, begin, end, Mask)]

uriFrame == <<fileVars, backend, lockVars, sbVars, walVars, nsVars, volver, cryVars,
              kvVars, appVars, extVars>>

\* no volume URI was given
IdleUri ==
    /\ uri = [scheme |-> "mem", creds |-> <<>>, host |-> <<>>]
    /\ lines = <<>>

\* a URI that Volume::new accepts; nothing logged yet
InitUri ==
    /\ uri \in Uris
    /\ lines = <<>>

\* the info! line of Fs::create
FsCreateLog ==
    /\ Len(lines) < 2
    /\ ~mask_uri(uri_text(uri)).panic
    /\ lines' = Append(lines, [op |-> "create", read_only |-> FALSE,
                                 text |-> mask_uri(uri_text(uri)).text])
    /\ UNCHANGED <<uri, uriFrame>>

\* the info! line of Fs::open
FsOpenLog ==
    /\ Len(lines) < 2
    /\ ~mask_uri(uri_text(uri)).panic
    /\ \E read_only \in BOOLEAN :
           lines' = Append(lines, [op |-> "open", read_only |-> read_only,
                                     text |-> mask_uri(uri_text(uri)).text])
    /\ UNCHANGED <<uri, uriFrame>>

NextUri == FsCreateLog \/ FsOpenLog

----------------------------------------------------------------------------
\* Storage: the WAL and the address store of the three storages

\* largest entity id
MaxEid == 2
Eids == 0 .. MaxEid
\* the byte strings that are stored: of different lengths, never empty
StoreVals == {<<1>>, <<2, 2>>}
\* Eid::to_path_buf: the WAL file of an entity lies in a directory that it
\* shares with the entities of the same leading id bytes
wal_dir(id) == id \div 2

\* a slot of a store holds no value, or the set of the one value it holds
Absent == {}

\* MemStorage: wal_map and addr_map of the Depot; FileStorage: the WAL
\* files, the directories under wal_base and the index of IndexMgr;
\* RedisStorage: the keys of the server
NoStore ==
    [wal_map |-> [id \in Eids |-> Absent], addr_map |-> [id \in Eids |-> Absent],
     files |-> [id \in Eids |-> Absent], dirs |-> {},
     index |-> [id \in Eids |-> Absent],
     keys |-> [k \in {"wal", "address"} \X Eids |-> Absent]]

\* redis.rs wal_key, addr_key
wal_key(id) == <<"wal", id>>
addr_key(id) == <<"address", id>>

Found(v) == IF v = Absent THEN [res |-> "NotFound", val |-> <<>>]
            ELSE [res |-> "Ok", val |-> CHOOSE x \in v : TRUE]

\* get_wal of the storage b
Storable_get_wal(b, s, id) ==
    CASE b = "mem" -> Found(s.wal_map[id])
      [] b = "file" -> Found(s.files[id])
      [] b = "redis" -> Found(s.keys[wal_key(id)])

\* put_wal: insert into the map; create the parent directories, then create
\* or truncate the file and write it; SET the key
Storable_put_wal(b, s, id, buf) ==
    CASE b = "mem" -> [s EXCEPT !.wal_map[id] = {buf}]
      [] b = "file" -> [s EXCEPT !.dirs = @ \cup {wal_dir(id)},
                                 !.files[id] = {<<>> \o buf}]
      [] b = "redis" -> [s EXCEPT !.keys[wal_key(id)] = {buf}]

\* variant of del_wal that removes the parent directory with all it holds
Storable_del_wal_dir(b, s, id) ==
    CASE b = "mem" -> [s EXCEPT !.wal_map[id] = Absent]
      [] b = "file" ->
            IF s.files[id] = Absent THEN s
            ELSE [s EXCEPT !.dirs = @ \ {wal_dir(id)},
                           !.files = [x \in Eids |->
                               IF wal_dir(x) = wal_dir(id) THEN Absent ELSE @[x]]]
      [] b = "redis" -> [s EXCEPT !.keys[wal_key(id)] = Absent]

\* del_wal: remove from the map; remove the file if it exists, and then its
\* parent directory if that is empty; DEL the key
Storable_del_wal(b, s, id) ==
    CASE b = "mem" -> [s EXCEPT !.wal_map[id] = Absent]
      [] b = "file" ->
            IF s.files[id] = Absent THEN s
            ELSE [s EXCEPT !.files[id] = Absent,
                           !.dirs = IF \E x \in Eids \ {id} :
                                           wal_dir(x) = wal_dir(id) /\ s.files[x] # Absent
                                    THEN @ ELSE @ \ {wal_dir(id)}]
      [] b = "redis" -> [s EXCEPT !.keys[wal_key(id)] = Absent]

\* get_address
get_address(b, s, id) ==
    CASE b = "mem" -> Found(s.addr_map[id])
      [] b = "file" -> Found(s.index[id])
      [] b = "redis" -> Found(s.keys[addr_key(id)])

\* put_address (FileStorage asserts that the address is not empty)
put_address(b, s, id, addr) ==
    CASE b = "mem" -> [s EXCEPT !.addr_map[id] = {addr}]
      [] b = "file" -> [s EXCEPT !.index[id] = {addr}]
      [] b = "redis" -> [s EXCEPT !.keys[addr_key(id)] = {addr}]

\* del_address
del_address(b, s, id) ==
    CASE b = "mem" -> [s EXCEPT !.addr_map[id] = Absent]
      [] b = "file" -> [s EXCEPT !.index[id] = Absent]
      [] b = "redis" -> [s EXCEPT !.keys[addr_key(id)] = Absent]

kvFrame == <<fileVars, backend, lockVars, sbVars, walVars, nsVars, volver,
             cryVars, uriVars, appVars, extVars>>

\* an initialised storage that holds nothing
IdleKv ==
    /\ kv = NoStore
    /\ shadow = [wal |-> [id \in Eids |-> Absent], address |-> [id \in Eids |-> Absent]]

PutWal ==
    \E id \in Eids, buf \in StoreVals :
        /\ kv' = Storable_put_wal(backend, kv, id, buf)
        /\ shadow' = [shadow EXCEPT !.wal[id] = {buf}]
        /\ UNCHANGED kvFrame

DelWal ==
    \E id \in Eids :
        /\ kv' = Storable_del_wal(backend, kv, id)
        /\ shadow' = [shadow EXCEPT !.wal[id] = Absent]
        /\ UNCHANGED kvFrame

PutAddress ==
    \E id \in Eids, addr \in StoreVals :
        /\ kv' = put_address(backend, kv, id, addr)
        /\ shadow' = [shadow EXCEPT !.address[id] = {addr}]
        /\ UNCHANGED kvFrame

DelAddress ==
    \E id \in Eids :
        /\ kv' = del_address(backend, kv, id)
        /\ shadow' = [shadow EXCEPT !.address[id] = Absent]
        /\ UNCHANGED kvFrame

NextKv == PutWal \/ DelWal \/ PutAddress \/ DelAddress

\* Volume::init as a whole on a storage of backend b that holds the super
\* blocks s and the store st: storage.init, then the save of a new super
\* block. MemStorage::init puts a new Depot in the place of the one under
\* loc before it locks; FileStorage::init and RedisStorage::init lock the
\* storage that is there
Volume_init_lock(b, m, s, st, pwd, payload, f) ==
    LET s0 == IF b = "mem" THEN [c \in {0, 1} |-> NoCopy] ELSE s
        st0 == IF b = "mem" THEN NoStore ELSE st
        o == storage_init(b, m, f)
    IN  IF o.res # "Ok"
        THEN [res |-> o.res, marker |-> o.marker, att |-> FALSE,
              sb |-> s0, kv |-> st0]
        ELSE [res |-> "Ok", marker |-> o.marker, att |-> TRUE,
              sb |-> Volume_init(s0, pwd, payload), kv |-> st0]

\* Volume::init on instance i
VolumeInit(i) ==
    /\ inst[i] = "new"
    /\ \E pwd \in Pwds, payload \in Payloads, f \in LockFaults :
        LET o == Volume_init_lock(backend, marker, sb, kv, pwd, payload, f)
        IN  /\ marker' = o.marker
            /\ inst' = [inst EXCEPT ![i] = IF o.att THEN "att" ELSE "failed"]
            /\ exists' = (exists \/ o.res = "Ok")
            /\ sb' = o.sb
            /\ kv' = o.kv
            /\ shadow' = IF o.kv = kv THEN shadow
                         ELSE [wal |-> [id \in Eids |-> Absent],
                               address |-> [id \in Eids |-> Absent]]
    /\ UNCHANGED <<forced, spc, given, newpwd, opened>>
    /\ UNCHANGED <<fileVars, backend, walVars, nsVars, volver, cryVars,
                   uriVars, appVars, extVars>>

\* a transaction of an attached instance stores the first WAL record and
\* the first address of the volume
HolderPut ==
    /\ Attached # {}
    /\ kv = NoStore
    /\ \E id \in Eids, buf \in StoreVals :
        /\ kv' = put_address(backend, Storable_put_wal(backend, kv, id, buf),
                             id, buf)
        /\ shadow' = [shadow EXCEPT !.wal[id] = {buf}, !.address[id] = {buf}]
    /\ UNCHANGED kvFrame

NextInit ==
    \/ \E i \in Insts : VolumeInit(i)
    \/ HolderPut
    \/ \E i \in Insts : FailedDrop(i)
    \/ \E i \in Insts : AttachedDrop(i)

----------------------------------------------------------------------------
\* Application Storage: the credentials kept in the vault (src/storage.rs)

\* longest list of credentials that is stored
MaxCreds == 2
\* ServerCredentials values, as the bytes of their fields: of two lengths
CredVals == {<<7>>, <<8, 8>>}
CredLists == UNION {[1 .. n -> CredVals] : n \in 0 .. MaxCreds}

\* bincode::serialize of a list: its length, then every element as its
\* length and its bytes
RECURSIVE bincode_serialize_items(_)
bincode_serialize_items(l) ==
    IF l = <<>> THEN <<>>
    ELSE <<Len(Head(l))>> \o Head(l) \o bincode_serialize_items(Tail(l))
bincode_serialize(l) == <<Len(l)>> \o bincode_serialize_items(l)

\* bincode::deserialize_from a reader: the length is read, then as many
\* elements; a reader that ends early is an error, bytes that follow the
\* last element are not read
RECURSIVE bincode_items_from(_, _, _)
bincode_items_from(bytes, at, n) ==
    IF n = 0 THEN [res |-> "Ok", list |-> <<>>]
    ELSE IF at > Len(bytes) \/ at + bytes[at] > Len(bytes)
         THEN [res |-> "De", list |-> <<>>]
    ELSE LET rest == bincode_items_from(bytes, at + 1 + bytes[at], n - 1)
         IN  IF rest.res # "Ok" THEN rest
             ELSE [res |-> "Ok",
                   list |-> <<SubSeq(bytes, at + 1, at + bytes[at])>> \o rest.list]
bincode_deserialize_from(bytes) ==
    IF bytes = <<>> THEN [res |-> "De", list |-> <<>>]
    ELSE bincode_items_from(bytes, 2, bytes[1])

\* the content of /credentials once OpenOptions::create(true) opened it: a
\* file that did not exist is created empty
opened_credentials(f) == IF f = Absent THEN <<>> ELSE CHOOSE c \in f : TRUE

\* Storage::credentials: the file is opened, and created if absent, and the
\* list is deserialized from its start
credentials(f) ==
    [file |-> {opened_credentials(f)},
     out |-> bincode_deserialize_from(opened_credentials(f))]

\* variant of store_credentials that writes behind the content, as a file
\* opened with append would
store_credentials_append(f, list) ==
    {Overlay(opened_credentials(f), Len(opened_credentials(f)),
             bincode_serialize(list))}

\* Storage::store_credentials: the file is opened without truncate, the
\* serialized list is written from position 0 and the version is finished
store_credentials(f, list) ==
    {Overlay(opened_credentials(f), 0, bincode_serialize(list))}

appFrame == <<fileVars, backend, lockVars, sbVars, walVars, nsVars, volver,
              cryVars, uriVars, kvVars, extVars>>

\* a Storage on a newly created vault
IdleApp ==
    /\ credfile = Absent
    /\ latest = Absent
    /\ app = "open"
    /\ loaded = [res |-> "none", list |-> <<>>]

\* Storage::credentials
Credentials ==
    /\ app # "dropped"
    /\ credfile' = credentials(credfile).file
    /\ loaded' = credentials(credfile).out
    /\ UNCHANGED <<latest, app, appFrame>>

\* Storage::store_credentials
StoreCredentials ==
    /\ app # "dropped"
    /\ \E list \in CredLists :
           /\ credfile' = store_credentials(credfile, list)
           /\ latest' = {list}
    /\ loaded' = [res |-> "none", list |-> <<>>]
    /\ UNCHANGED <<app, appFrame>>

\* the Storage is dropped
AppDrop ==
    /\ app # "dropped"
    /\ app' = "dropped"
    /\ loaded' = [res |-> "none", list |-> <<>>]
    /\ UNCHANGED <<credfile, latest, appFrame>>

\* Storage::open_with_root on the root of the dropped Storage
AppReopen ==
    /\ app = "dropped"
    /\ app' = "reopened"
    /\ UNCHANGED <<credfile, latest, loaded, appFrame>>

NextApp == Credentials \/ StoreCredentials \/ AppDrop \/ AppReopen

----------------------------------------------------------------------------
\* Cost: the password hashing cost as one byte (crypto.rs)

\* the values of a u8
U8 == 2 ^ 8
\* OpsLimit and MemLimit
Limits == {"Interactive", "Moderate", "Sensitive"}
Costs == [ops_limit : Limits, mem_limit : Limits]

\* a | b and a << k on u8, and a & b
RECURSIVE bit_or(_, _, _)
bit_or(a, b, n) ==
    IF n = 0 THEN 0
    ELSE (IF a % 2 = 1 \/ b % 2 = 1 THEN 1 ELSE 0)
             + 2 * bit_or(a \div 2, b \div 2, n - 1)

RECURSIVE bit_and(_, _, _)
bit_and(a, b, n) ==
    IF n = 0 THEN 0
    ELSE (IF a % 2 = 1 /\ b % 2 = 1 THEN 1 ELSE 0)
             + 2 * bit_and(a \div 2, b \div 2, n - 1)

shl(a, k) == (a * 2 ^ k) % U8
shr(a, k) == a \div 2 ^ k

\* the match of to_u8 on a limit
limit_u8(l) ==
    CASE l = "Interactive" -> 0 [] l = "Moderate" -> 1 [] OTHER -> 2

\* variant of to_u8 that does not shift the memory limit
to_u8_noshift(c) == bit_or(limit_u8(c.ops_limit), limit_u8(c.mem_limit), 8)

\* Cost::to_u8
to_u8(c) == bit_or(limit_u8(c.ops_limit), shl(limit_u8(c.mem_limit), 4), 8)

\* the match of from_u8 on a nibble
limit_from(n) ==
    CASE n = 0 -> "Interactive" [] n = 1 -> "Moderate" [] n = 2 -> "Sensitive"
      [] OTHER -> "none"

\* Cost::from_u8
from_u8(c) ==
    IF limit_from(bit_and(c, 15, 8)) = "none" THEN [res |-> "InvalidCost"]
    ELSE IF limit_from(shr(c, 4)) = "none" THEN [res |-> "InvalidCost"]
    ELSE [res |-> "Ok",
          cost |-> [ops_limit |-> limit_from(bit_and(c, 15, 8)),
                    mem_limit |-> limit_from(shr(c, 4))]]

costFrame == <<coreVars, cmdVars, fmtst>>

IdleCost == costst = [op |-> "none", arg |-> 0, out |-> 0]

\* a cost is encoded for the super block head
ToU8 ==
    /\ \E c \in Costs : costst' = [op |-> "to_u8", arg |-> c, out |-> to_u8(c)]
    /\ UNCHANGED costFrame

\* a byte read from a super block head is decoded
FromU8 ==
    /\ \E c \in 0 .. U8 - 1 :
           costst' = [op |-> "from_u8", arg |-> c, out |-> from_u8(c)]
    /\ UNCHANGED costFrame

NextCost == ToU8 \/ FromU8

----------------------------------------------------------------------------
\* Display of an api Response, and the login command that logs its result
\* (api/call_event.rs, commands.rs)

\* stack frames a thread has room for
MaxFrames == 8
Imps == {"src", "app"}

\* the variants of Response in the two binaries
Variants(imp) ==
    IF imp = "src" THEN {"LoginResponse", "MyTeams"}
    ELSE {"LoginResponse", "MyTeams", "MyTeamMembers", "MyChannels"}

\* login logs its result with "{}" in src/commands.rs and with "{:?}", the
\* derived Debug, in app/src/commands.rs
login_logs_display(imp) == imp = "src"

\* impl Display for Response: fmt is write!(f, "{}", self), which calls fmt
\* of the same value again, in a new frame
Response_fmt(s) ==
    IF s.depth < MaxFrames THEN [s EXCEPT !.depth = @ + 1]
    ELSE [s EXCEPT !.pc = "overflow"]

fmtFrame == <<coreVars, cmdVars, costst>>

IdleFmt ==
    fmtst = [imp |-> "src", variant |-> "LoginResponse", by |-> "login",
             info |-> FALSE, pc |-> "idle", depth |-> 0]

\* a Response is about to be formatted: by login, which got it as the
\* server's reply, or by a to_string of the value; info tells whether the
\* subscriber formats events of level INFO
InitFmt ==
    \E imp \in Imps, by \in {"login", "to_string"}, info \in BOOLEAN :
        \E variant \in Variants(imp) :
            fmtst = [imp |-> imp, variant |-> variant, by |-> by,
                     info |-> info, pc |-> "start", depth |-> 0]

\* tracing::info!("result: ...", result) of login, or to_string
FmtBegin ==
    /\ fmtst.pc = "start"
    /\ fmtst' =
           IF fmtst.by = "login" /\ ~(login_logs_display(fmtst.imp) /\ fmtst.info)
           THEN [fmtst EXCEPT !.pc = "returned"]
           ELSE [fmtst EXCEPT !.pc = "fmt", !.depth = 1]
    /\ UNCHANGED fmtFrame

\* the next call of fmt
FmtCall ==
    /\ fmtst.pc = "fmt"
    /\ fmtst' = Response_fmt(fmtst)
    /\ UNCHANGED fmtFrame

NextFmt == FmtBegin \/ FmtCall

----------------------------------------------------------------------------
\* Commands of the application: tasks that share Mutex<UserState> and
\* Mutex<ServerState> (commands.rs, states.rs)

\* commands invoked in one behaviour
MaxTask == 2
\* longest list of servers
MaxServers == 3
Tasks == 1 .. MaxTask

localhost == [name |-> "localhost", url |-> "http://localhost:8065"]
ITA == [name |-> "ITA", url |-> "https://mm.ita-prog.pl"]

\* impl Default for ServerState; an Option is the set of what it holds
ServerState_default == [current |-> {localhost}, servers |-> <<localhost, ITA>>]

\* the arguments of add_server and change_server: [name, url]
SrvNames == {"ITA", "new"}
Urls == {"https://new", "not a url"}
Url_parse(u) == u # "not a url"

TeamCmds == {"my_teams", "my_team_members", "my_channels"}
ThreadCmds == {"post_threads", "channel_posts"}
SrvCmds == {"add_server", "change_server", "get_current_server", "get_all_servers"}

\* the commands of commands.rs in the two binaries
Commands(imp) ==
    {"login", "logout"} \cup TeamCmds \cup SrvCmds
        \cup (IF imp = "app" THEN ThreadCmds ELSE {})

\* the first await of a command
first_pc(imp, cmd) ==
    CASE cmd = "login" -> IF imp = "app" THEN "s" ELSE "u"
      [] cmd = "logout" -> "u"
      [] cmd \in TeamCmds -> IF imp = "app" THEN "u1" ELSE "u"
      [] OTHER -> "s"

\* the state the commands work on
CmdSt ==
    [tasks |-> tasks, umx |-> umx, smx |-> smx, token |-> token,
     fresh |-> fresh, srv |-> srv]

\* task t goes on to the await at; it returns and its guards are dropped
goto(st, t, at) == [st EXCEPT !.tasks[t].pc = at]
unlock(st, t) ==
    [st EXCEPT !.umx = IF @ = t THEN 0 ELSE @, !.smx = IF @ = t THEN 0 ELSE @]
return(st, t) == goto(unlock(st, t), t, "done")

\* current.as_ref().unwrap() panics on None; the unwinding drops the guards
unwrap_current(st, t, at) ==
    IF st.srv.current = {} THEN goto(unlock(st, t), t, "panic") ELSE goto(st, t, at)

\* app/src/commands.rs login: the url is read under the server lock, the
\* request runs with no lock held, the token is stored under the user lock
login_app(st, t) ==
    CASE st.tasks[t].pc = "s" ->
             IF st.smx # 0 THEN {} ELSE {unwrap_current(st, t, "http")}
      [] st.tasks[t].pc = "http" -> {goto(st, t, "store"), return(st, t)}
      [] st.tasks[t].pc = "store" ->
             IF st.umx # 0 THEN {} ELSE {return([st EXCEPT !.token = t], t)}
      [] OTHER -> {}

\* src/commands.rs login: both locks are held over the request; a reply
\* that is Ok is logged through Display, which does not return when the
\* event is formatted
login_src(info, st, t) ==
    CASE st.tasks[t].pc = "u" ->
             IF st.umx # 0 THEN {} ELSE {goto([st EXCEPT !.umx = t], t, "s")}
      [] st.tasks[t].pc = "s" ->
             IF st.smx # 0 THEN {}
             ELSE {unwrap_current([st EXCEPT !.smx = t], t, "http")}
      [] st.tasks[t].pc = "http" ->
             {return(st, t),
              IF info THEN goto(st, t, "abort")
              ELSE return([st EXCEPT !.token = t], t)}
      [] OTHER -> {}

\* the login tasks that have not sent their request yet
unsent(st) ==
    {k \in Tasks : st.tasks[k].cmd = "login" /\ st.tasks[k].pc \in {"s", "u"}}

\* logout: token and user_details are cleared under the user lock; of the
\* logins invoked so far, those whose request is not sent yet count as
\* invoked after this logout
logout(st, t) ==
    IF st.umx # 0 THEN {}
    ELSE {return([st EXCEPT !.token = 0, !.fresh = @ \cap unsent(st)], t)}

\* app/src/commands.rs my_teams, my_team_members, my_channels: the token is
\* read under the user lock, which is dropped; the server lock is held over
\* the request and while the user lock is taken again
teams_app(st, t) ==
    CASE st.tasks[t].pc = "u1" -> IF st.umx # 0 THEN {} ELSE {goto(st, t, "s")}
      [] st.tasks[t].pc = "s" ->
             IF st.smx # 0 THEN {}
             ELSE {unwrap_current([st EXCEPT !.smx = t], t, "http")}
      [] st.tasks[t].pc = "http" -> {goto(st, t, "u2"), return(st, t)}
      [] st.tasks[t].pc = "u2" -> IF st.umx # 0 THEN {} ELSE {return(st, t)}
      [] OTHER -> {}

\* src/commands.rs my_teams, my_team_members, my_channels: the user lock,
\* then the server lock, both held over the request
teams_src(st, t) ==
    CASE st.tasks[t].pc = "u" ->
             IF st.umx # 0 THEN {} ELSE {goto([st EXCEPT !.umx = t], t, "s")}
      [] st.tasks[t].pc = "s" ->
             IF st.smx # 0 THEN {}
             ELSE {unwrap_current([st EXCEPT !.smx = t], t, "http")}
      [] st.tasks[t].pc = "http" -> {return(st, t)}
      [] OTHER -> {}

\* post_threads, channel_posts: the server lock is held from the start, the
\* token is read under the user lock, then the request runs
thread_cmd(st, t) ==
    CASE st.tasks[t].pc = "s" ->
             IF st.smx # 0 THEN {} ELSE {goto([st EXCEPT !.smx = t], t, "u")}
      [] st.tasks[t].pc = "u" ->
             IF st.umx # 0 THEN {}
             ELSE IF st.srv.current = {} THEN {return(st, t)}
             ELSE {goto(st, t, "http")}
      [] st.tasks[t].pc = "http" -> {return(st, t)}
      [] OTHER -> {}

\* add_server, after the url was parsed
add_server(s, name, url) ==
    [current |-> {[name |-> name, url |-> url]},
     servers |-> Append(s.servers, [name |-> name, url |-> url])]

\* variant of change_server that selects a server it does not know
change_server_any(s, name) ==
    [s EXCEPT !.current = {[name |-> name, url |-> "https://new"]}]

\* change_server: the first server of that name, or UnknownServer
change_server(s, name) ==
    IF \E i \in 1 .. Len(s.servers) : s.servers[i].name = name
    THEN [s EXCEPT !.current =
             {s.servers[CHOOSE i \in 1 .. Len(s.servers) :
                 /\ s.servers[i].name = name
                 /\ \A j \in 1 .. i - 1 : s.servers[j].name # name]}]
    ELSE s

\* add_server, change_server, get_current_server, get_all_servers under
\* the server lock
server_cmd(st, t) ==
    IF st.smx # 0 THEN {}
    ELSE CASE st.tasks[t].cmd = "add_server" ->
                  {return([st EXCEPT !.srv =
                      add_server(@, st.tasks[t].arg.name, st.tasks[t].arg.url)], t)}
           [] st.tasks[t].cmd = "change_server" ->
                  {return([st EXCEPT !.srv =
                      change_server(@, st.tasks[t].arg.name)], t)}
           [] OTHER -> {return(st, t)}

\* what task t may do next; nothing runs once the process has aborted
step(b, st, t) ==
    IF \E k \in Tasks : st.tasks[k].pc = "abort" THEN {}
    ELSE IF st.tasks[t].pc \in {"idle", "done", "panic"} THEN {}
    ELSE CASE st.tasks[t].cmd = "login" ->
                  IF b.imp = "app" THEN login_app(st, t)
                  ELSE login_src(b.info, st, t)
           [] st.tasks[t].cmd = "logout" -> logout(st, t)
           [] st.tasks[t].cmd \in TeamCmds ->
                  IF b.imp = "app" THEN teams_app(st, t) ELSE teams_src(st, t)
           [] st.tasks[t].cmd \in ThreadCmds -> thread_cmd(st, t)
           [] OTHER -> server_cmd(st, t)

\* the invocation of cmd as task t: it runs up to its first await;
\* add_server returns at once when the url does not parse
invoke(b, st, t, cmd, arg) ==
    [st EXCEPT !.tasks[t] =
                   [cmd |-> cmd, arg |-> arg,
                    pc |-> IF cmd = "add_server" /\ ~Url_parse(arg.url)
                           THEN "done" ELSE first_pc(b.imp, cmd)],
               !.fresh = IF cmd = "login" THEN @ \cup {t} ELSE @]

NoArg == [name |-> "", url |-> ""]

\* the arguments a command is invoked with
Args(cmd) ==
    CASE cmd = "add_server" -> [name : SrvNames, url : Urls]
      [] cmd = "change_server" -> [name : SrvNames, url : {""}]
      [] OTHER -> {NoArg}

cmdFrame == <<coreVars, fmtst, costst>>

\* the variables after a step to st
CmdDone(st) ==
    /\ tasks' = st.tasks
    /\ umx' = st.umx
    /\ smx' = st.smx
    /\ token' = st.token
    /\ fresh' = st.fresh
    /\ srv' = st.srv
    /\ UNCHANGED <<bin, cmdFrame>>

IdleCmd ==
    /\ bin = [imp |-> "app", info |-> FALSE]
    /\ tasks = [t \in Tasks |-> [cmd |-> "", arg |-> NoArg, pc |-> "idle"]]
    /\ umx = 0
    /\ smx = 0
    /\ token = 0
    /\ fresh = {}
    /\ srv = ServerState_default

\* one of the two binaries starts; info tells whether its subscriber
\* formats events of level INFO
InitCmd ==
    /\ bin \in [imp : Imps, info : BOOLEAN]
    /\ tasks = [t \in Tasks |-> [cmd |-> "", arg |-> NoArg, pc |-> "idle"]]
    /\ umx = 0
    /\ smx = 0
    /\ token = 0
    /\ fresh = {}
    /\ srv = ServerState_default

\* the front end invokes one of the commands cmds as task t
InvokeOf(t, cmds) ==
    /\ tasks[t].pc = "idle"
    /\ \A k \in Tasks : tasks[k].pc # "abort"
    /\ \E cmd \in cmds \cap Commands(bin.imp) :
        \E arg \in Args(cmd) :
            /\ cmd = "add_server" =>
                   Len(srv.servers) + Cardinality({k \in Tasks :
                       tasks[k].cmd = "add_server" /\ tasks[k].pc = "s"})
                       < MaxServers
            /\ CmdDone(invoke(bin, CmdSt, t, cmd, arg))

Invoke(t) == InvokeOf(t, Commands("app"))

\* the commands that read or write ServerState.current
InvokeSrv(t) ==
    InvokeOf(t, {"add_server", "change_server", "login", "my_teams"})

\* task t is polled and runs up to its next await or to its return
Step(t) == \E st \in step(bin, CmdSt, t) : CmdDone(st)

NextCmd ==
    \/ \E t \in Tasks : Invoke(t)
    \/ \E t \in Tasks : Step(t)

NextSrv ==
    \/ \E t \in Tasks : InvokeSrv(t)
    \/ \E t \in Tasks : Step(t)

----------------------------------------------------------------------------
\* Initial states and specifications

RW == [r |-> TRUE, w |-> TRUE]
WO == [r |-> FALSE, w |-> TRUE]

\* a newly created file, opened by the handles in open
InitHandles(open, threads, modes) ==
    /\ hs = open
    /\ closed = FALSE
    /\ limit \in DEFAULT_VERSION_LIMIT .. MaxLimit
    /\ thr = threads
    /\ mode = modes
    /\ vers = <<>>
    /\ pos = [h \in Handles |-> 0]
    /\ wtr = [h \in Handles |-> None]
    /\ txh = [h \in Handles |-> "none"]
    /\ rdr = [h \in Handles |-> None]
    /\ commits = <<>>

\* no storage instance exists yet
InitLock ==
    /\ exists = FALSE
    /\ marker = FALSE
    /\ inst = [i \in Insts |-> "new"]
    /\ forced = FALSE

\* no super block is stored yet
InitSb ==
    /\ sb = [c \in {0, 1} |-> NoCopy]
    /\ spc = "new"
    /\ given = [pwd |-> "", payload |-> ""]
    /\ newpwd = None
    /\ opened = [res |-> "none", payload |-> ""]

\* no repo exists yet
InitWal ==
    /\ disk = [o \in Objs |-> 0]
    /\ wal = {}
    /\ pc = "new"
    /\ todo = {}
    /\ txobjs = <<>>
    /\ logged = {}
    /\ acked = {}

\* the namespace of a new repo: the root directory alone
InitNs ==
    /\ nodes = [n \in 0 .. MaxNode |-> IF n = Root THEN RootDir ELSE Free]
    /\ ro = FALSE
    /\ held = {}

\* nothing but a volume is in use
\* no command runs, nothing is formatted or converted
IdleExt == IdleCmd /\ IdleFmt /\ IdleCost

IdleAux == IdleCry /\ IdleUri /\ IdleKv /\ IdleApp /\ IdleExt

\* a volume of this engine
InitAux ==
    /\ volver = repo_version
    /\ IdleAux

\* one read-write handle on a file of a mem repo
InitFile ==
    /\ InitHandles({1}, [h \in Handles |-> h], [h \in Handles |-> RW])
    /\ backend = "mem" /\ InitLock /\ InitSb /\ InitWal /\ InitNs /\ InitAux

NextFile ==
    \/ \E h \in hs : Write(h)
    \/ \E h \in hs : Finish(h)
    \/ \E h \in hs : WriteOnce(h)
    \/ \E h \in hs : SetLen(h)
    \/ \E h \in hs : Seek(h)
    \/ \E h \in hs : Read(h)
    \/ FsDrop

SpecFile == InitFile /\ [][NextFile]_vars

\* one read-write handle that also flushes, on an Fs that may be dropped
NextClosed ==
    \/ \E h \in hs : Write(h)
    \/ \E h \in hs : Flush(h)
    \/ \E h \in hs : Finish(h)
    \/ \E h \in hs : Seek(h)
    \/ \E h \in hs : Read(h)
    \/ FsDrop

SpecClosed == InitFile /\ [][NextClosed]_vars

\* one write-only handle
InitFile1 ==
    /\ InitHandles({1}, [h \in Handles |-> h], [h \in Handles |-> WO])
    /\ backend = "mem" /\ InitLock /\ InitSb /\ InitWal /\ InitNs /\ InitAux

NextFile1 ==
    \/ \E h \in hs : Write(h)
    \/ \E h \in hs : Finish(h)
    \/ \E h \in hs : WriteOnce(h)
    \/ \E h \in hs : SetLen(h)
    \/ \E h \in hs : Seek(h)

SpecFile1 == InitFile1 /\ [][NextFile1]_vars

\* one write-only handle that also flushes
NextFlush ==
    \/ NextFile1
    \/ \E h \in hs : Flush(h)

SpecFlush == InitFile1 /\ [][NextFlush]_vars

\* two write-only handles, each used by its own thread
InitFile2 ==
    /\ InitHandles(Handles, [h \in Handles |-> h], [h \in Handles |-> WO])
    /\ backend = "mem" /\ InitLock /\ InitSb /\ InitWal /\ InitNs /\ InitAux

NextFile2 ==
    \/ \E h \in hs : Write(h)
    \/ \E h \in hs : Finish(h)
    \/ \E h \in hs : WriteOnce(h)

SpecFile2 == InitFile2 /\ [][NextFile2]_vars

\* one read-write handle that writes the example buffers
NextFooBar ==
    \/ \E h \in hs : WriteData(h)
    \/ \E h \in hs : Finish(h)
    \/ \E h \in hs : Read(h)

SpecFooBar == InitFile /\ [][NextFooBar]_vars

\* two read-write handles on one file, each used by its own thread
InitShared ==
    /\ InitHandles(Handles, [h \in Handles |-> h], [h \in Handles |-> RW])
    /\ backend = "mem" /\ InitLock /\ InitSb /\ InitWal /\ InitNs /\ InitAux

NextShared ==
    \/ \E h \in hs : WriteOnce(h)
    \/ \E h \in hs : Read(h)

SpecShared == InitShared /\ [][NextShared]_vars

\* two write-only handles used by one thread, default version limit
InitThread ==
    /\ InitHandles(Handles, [h \in Handles |-> 1], [h \in Handles |-> WO])
    /\ limit = DEFAULT_VERSION_LIMIT
    /\ backend = "mem" /\ InitLock /\ InitSb /\ InitWal /\ InitNs /\ InitAux

NextThread ==
    \/ \E h \in hs : Write(h)
    \/ \E h \in hs : Finish(h)
    \/ \E h \in hs : WriteOnce(h)
    \/ \E h \in hs : SetLen(h)

SpecThread == InitThread /\ [][NextThread]_vars

\* no file is open in the specifications below
InitNoFile == InitHandles({}, [h \in Handles |-> h], [h \in Handles |-> WO])

\* the storage side of the specifications that open no volume
InitCore ==
    /\ backend = "mem"
    /\ InitLock /\ InitSb /\ InitWal /\ InitNs
    /\ InitNoFile /\ limit = DEFAULT_VERSION_LIMIT
    /\ volver = repo_version

InitLockSpec ==
    /\ backend \in Backends
    /\ InitLock /\ InitSb /\ InitWal /\ InitNs /\ InitAux
    /\ InitNoFile /\ limit = DEFAULT_VERSION_LIMIT

SpecLock == InitLockSpec /\ [][NextLock]_vars

\* a process that stops loses a mem volume: the storages that outlive it
Durable == {"file", "redis"}

InitDurable ==
    /\ backend \in Durable
    /\ InitLock /\ InitSb /\ InitWal /\ InitNs /\ InitAux
    /\ InitNoFile /\ limit = DEFAULT_VERSION_LIMIT

\* a created repo with an empty namespace, opened for writing
InitFs ==
    /\ backend = "mem"
    /\ InitLock /\ InitWal /\ InitNs /\ InitAux
    /\ InitNoFile /\ limit = DEFAULT_VERSION_LIMIT
    /\ sb = Volume_init([c \in {0, 1} |-> NoCopy], "pwd", "payload_a")
    /\ spc = "idle"
    /\ given = [pwd |-> "pwd", payload |-> "payload_a"]
    /\ newpwd = None
    /\ opened = [res |-> "none", payload |-> ""]

SpecNs == InitFs /\ [][NextNs]_vars

SpecRo == InitFs /\ [][NextRo]_vars

SpecTree == InitFs /\ [][NextTree]_vars

\* a volume that an engine of any version created, not opened yet
InitVer ==
    /\ backend \in Durable
    /\ InitLock /\ InitWal /\ InitNs /\ IdleAux
    /\ InitNoFile /\ limit = DEFAULT_VERSION_LIMIT
    /\ volver \in Versions
    /\ \E pwd \in Pwds, payload \in Payloads :
           /\ sb = Volume_init([c \in {0, 1} |-> NoCopy], pwd, payload)
           /\ given = [pwd |-> pwd, payload |-> payload]
    /\ spc = "down"
    /\ newpwd = None
    /\ opened = [res |-> "none", payload |-> ""]

NextVer == ResetPassword \/ SaveNext \/ SbCrash \/ SbOpen

SpecVer == InitVer /\ [][NextVer]_vars

SpecSb == InitDurable /\ [][NextSb]_vars

\* a volume of any format version on any storage, not opened yet
InitOpen ==
    /\ backend \in Backends
    /\ exists = TRUE /\ marker = FALSE /\ forced = FALSE
    /\ inst = [i \in Insts |-> "new"]
    /\ InitWal /\ InitNs /\ IdleAux
    /\ InitNoFile /\ limit = DEFAULT_VERSION_LIMIT
    /\ volver \in Versions
    /\ sb = Volume_init([c \in {0, 1} |-> NoCopy], "pwd", "payload_a")
    /\ given = [pwd |-> "pwd", payload |-> "payload_a"]
    /\ spc = "down"
    /\ newpwd = None
    /\ opened = [res |-> "none", payload |-> ""]

SpecOpen == InitOpen /\ [][NextOpen]_vars

\* a volume on a file or redis storage that no instance has opened
InitRace ==
    /\ backend \in Durable
    /\ exists = TRUE /\ marker = FALSE /\ forced = FALSE
    /\ inst = [i \in Insts |-> "new"]
    /\ InitSb /\ InitWal /\ InitNs /\ InitAux
    /\ InitNoFile /\ limit = DEFAULT_VERSION_LIMIT

SpecRace == InitRace /\ [][NextRace]_vars

\* a root directory, with or without a vault from an earlier run
InitVault ==
    /\ backend = "file"
    /\ exists \in BOOLEAN /\ marker = FALSE /\ forced = FALSE
    /\ inst = [i \in Insts |-> "new"]
    /\ InitSb /\ InitWal /\ InitNs /\ InitAux
    /\ InitNoFile /\ limit = DEFAULT_VERSION_LIMIT

SpecVault == InitVault /\ [][NextVault]_vars

\* an encrypted message, and nothing else in use
InitCrypto == InitCore /\ InitCry /\ IdleUri /\ IdleKv /\ IdleApp /\ IdleExt

SpecCry == InitCrypto /\ [][NextCry]_vars

\* a volume URI, and nothing else in use
InitLog == InitCore /\ IdleCry /\ InitUri /\ IdleKv /\ IdleApp /\ IdleExt

SpecUri == InitLog /\ [][NextUri]_vars

\* an initialised storage of any kind
InitKv ==
    /\ backend \in Backends
    /\ InitLock /\ InitSb /\ InitWal /\ InitNs /\ InitAux
    /\ InitNoFile /\ limit = DEFAULT_VERSION_LIMIT

SpecKv == InitKv /\ [][NextKv]_vars

\* Volume::init on a location of any storage, again and again
SpecInit == InitKv /\ [][NextInit]_vars

\* a Storage on a new vault
InitApp == InitCore /\ IdleAux

SpecApp == InitApp /\ [][NextApp]_vars

\* Cost values are encoded and bytes are decoded
InitCostSpec ==
    InitCore /\ IdleCry /\ IdleUri /\ IdleKv /\ IdleApp /\ IdleCmd /\ IdleFmt
        /\ IdleCost

SpecCost == InitCostSpec /\ [][NextCost]_vars

\* one Response is formatted; the thread that formats runs on
InitFormat ==
    InitCore /\ IdleCry /\ IdleUri /\ IdleKv /\ IdleApp /\ IdleCmd /\ InitFmt
        /\ IdleCost

SpecFmt == InitFormat /\ [][NextFmt]_vars /\ WF_vars(NextFmt)

\* the commands of one of the two binaries, invoked concurrently
InitCommands ==
    InitCore /\ IdleCry /\ IdleUri /\ IdleKv /\ IdleApp /\ InitCmd /\ IdleFmt
        /\ IdleCost

SpecCmd == InitCommands /\ [][NextCmd]_vars

\* the runtime polls every task that can go on, and every request completes
SpecCmdLive ==
    InitCommands /\ [][NextCmd]_vars /\ \A t \in Tasks : WF_vars(Step(t))

\* the commands that touch ServerState.current, invoked concurrently
SpecSrv == InitCommands /\ [][NextSrv]_vars

SpecWal == InitDurable /\ [][NextWal]_vars
----------------------------------------------------------------------------
\* Properties

Min(a, b) == IF a < b THEN a ELSE b

\* C1: write_once is atomic: when it returns an error, from any position of
\* the handle, the version history, the current version number and the
\* content are what they were before the call.
C1_WriteOnceAtomic ==
    \A h \in hs :
        \A buf \in Bufs(h), f \in Faults :
            LET o == write_once(h, St(h), buf, f)
            IN  o.res # "Ok" => o.s.vers = vers

\* C2: nothing of a multi-part write is visible before finish returns Ok:
\* every write call, the first one included, and every failed finish leave
\* the versions and their content as they were.
C2_HiddenUntilFinish ==
    \A h \in hs :
        /\ \A buf \in Bufs(h), f \in Faults \ {"commit", "renew"} :
               write(h, St(h), buf, f).s.vers = vers
        /\ \A f \in {"none", "commit", "renew"} :
               LET o == finish(h, St(h), f)
               IN  o.res # "Ok" => o.s.vers = vers

\* C10: version numbers start at 1 and are consecutive, and a successful
\* finish, write_once or set_len makes curr_version exactly one more than
\* it was, from every position of the handle.
C10_OneVersionPerCall ==
    /\ \A i \in 1 .. Len(commits) : commits[i].num = i
    /\ \A h \in hs :
        /\ \A f \in {"none", "commit", "renew"} :
               LET o == finish(h, St(h), f)
               IN  o.res = "Ok" => curr_ver_num(o.s.vers) = curr_version + 1
        /\ \A buf \in Bufs(h), f \in Faults :
               LET o == write_once(h, St(h), buf, f)
               IN  o.res = "Ok" => curr_ver_num(o.s.vers) = curr_version + 1
        /\ \A len \in 0 .. MaxLen, f \in {"none", "set_len", "renew_sl"} :
               LET o == set_len(h, St(h), len, f)
               IN  o.res = "Ok" => curr_ver_num(o.s.vers) = curr_version + 1

\* C9: after N versions were written to a file of version limit L, history
\* has min(N, L) entries, the most recent ones, oldest first with strictly
\* increasing numbers, and its last entry is the current version.
C9_VersionLimit ==
    LET N == Len(commits)
    IN  /\ Len(history) = Min(N, limit)
        /\ \A j \in 1 .. Len(history) :
               history[j].num = N - Min(N, limit) + j
        /\ N > 0 => /\ history[Len(history)].num = curr_version
                    /\ history[Len(history)].ctn = curr_ctn(vers)
                    /\ curr_version = N

\* C9 witness: three versions were written under a limit of two
C9_Evicted == Len(commits) > limit /\ limit > DEFAULT_VERSION_LIMIT

\* C6: two handles on two threads are serialized: a finish that returns Ok
\* adds its own version, numbered after every version committed before it,
\* holding its data written over the latest committed content, and leaves
\* the earlier versions in history as they were, in commit order.
C6_Serialized ==
    /\ \A i \in 1 .. Len(commits) : commits[i].num = i
    /\ \A j \in 1 .. Len(vers) : vers[j].num = Len(commits) - Len(vers) + j
    /\ \A h \in hs, f \in {"none", "commit", "renew"} :
        LET o == finish(h, St(h), f)
            n == Len(o.s.vers)
        IN  o.res = "Ok" =>
              /\ o.s.commits = Append(commits, [num |-> Len(commits) + 1, h |-> h])
              /\ n >= 1
              /\ o.s.vers[n].num = Len(commits) + 1
              /\ o.s.vers[n].ctn = Overlay(curr_ctn(vers), wtr[h].start, wtr[h].buf)
              /\ \A j \in 1 .. n - 1 : o.s.vers[j] = vers[Len(vers) - (n - 1) + j]

\* C6 witness: the two handles committed one version each, both versions
\* are in history, and the first committer has a further write pending
C6_BothCommitted ==
    /\ Len(commits) >= 2
    /\ commits[1].h # commits[2].h
    /\ Len(vers) >= 2
    /\ wtr[commits[1].h] # None

\* C4: without force, at most one storage instance is attached to a volume,
\* and while one is attached an open by another fails with RepoOpened, for
\* each of the mem, file and redis storages.
C4_ExclusiveAttach ==
    ~forced =>
        /\ Cardinality(Attached) <= 1
        /\ \A i \in Insts :
               (inst[i] = "new" /\ exists /\ Attached # {}) =>
                   storage_open(backend, marker, FALSE, "none").res = "RepoOpened"

C8_SuperBlockSurvives ==
    spc # "new" =>
        /\ \E c \in {0, 1} : sb[c].st = "ok"
        /\ \E pwd \in Pwds :
               /\ Volume_open(pwd, sb).res = "Ok"
               /\ Volume_open(pwd, sb).payload = given.payload
        /\ get_super_block(sb, 0).st # "ok" =>
               /\ get_super_block(sb, 1).st = "ok"
               /\ Volume_open(get_super_block(sb, 1).pwd, sb).res = "Ok"

\* a transaction some of whose mutations are stored and some are not
Partial(k) ==
    /\ \E o \in txobjs[k] : disk[o] = k
    /\ \E o \in txobjs[k] : disk[o] < k

\* C3: commit is crash-atomic: outside a commit in progress, and so after
\* every open, no transaction is stored in part; a transaction stored in
\* part has its complete WAL record stored; no mutation is stored and no
\* commit acknowledged before the WAL record was written completely.
C3_CrashAtomic ==
    /\ pc \in {"idle", "staged", "closed"} =>
           \A k \in 1 .. Len(txobjs) : ~Partial(k)
    /\ \A k \in 1 .. Len(txobjs) :
           Partial(k) => WalRec(k, txobjs[k], TRUE) \in wal
    /\ \A k \in 1 .. Len(txobjs) :
           (\E o \in txobjs[k] : disk[o] = k) => k \in logged
    /\ acked \subseteq logged

\* C3 witness: a commit of two mutations was interrupted after its WAL
\* record was written, and the next open completed it
C3_Recovered ==
    /\ pc = "idle"
    /\ \E k \in logged \ acked :
        /\ Cardinality(txobjs[k]) >= 2
        /\ \A o \in txobjs[k] : disk[o] = k

\* C7: reopening with the password of the creation returns the payload of
\* the creation; what a committed transaction stored is only ever replaced
\* by a later one; nothing of a transaction that was not committed is
\* stored; an open after a clean drop changes nothing that is stored.
C7_ReopenDurable ==
    /\ opened.res = "Ok" => opened.payload = given.payload
    /\ \A o \in Objs : disk[o] = 0 \/ disk[o] \in logged
    /\ \A k \in acked : \A o \in txobjs[k] : disk[o] >= k
    /\ pc = "closed" =>
           LET r == Fs_open(given.pwd, sb, disk, wal)
           IN  /\ r.res = "Ok"
               /\ r.payload = given.payload
               /\ r.disk = disk

\* C7 witness: the repo was opened again after one transaction was committed
\* and another one was dropped without a commit
C7_Reopened ==
    /\ pc = "idle"
    /\ opened.res = "Ok"
    /\ acked # {}
    /\ Len(txobjs) > Cardinality(logged)

\* the example run on handle h: write foo, finish, write bar, finish
FooBar(h) ==
    LET w1 == write(h, St(h), foo, "none")
        f1 == finish(h, w1.s, "none")
        w2 == write(h, f1.s, bar, "none")
        f2 == finish(h, w2.s, "none")
    IN  [ok |-> {w1.res, f1.res, w2.res, f2.res} = {"Ok"},
         first |-> f1.s.vers, last |-> f2.s.vers]

\* a handle at the start of a file that has no version yet
NewFile(h) ==
    /\ ~closed /\ vers = <<>> /\ commits = <<>>
    /\ pos[h] = 0 /\ wtr[h] = None /\ txh[h] = "none"

\* C11: on a new file, write "foo" then finish gives version 1 with content
\* "foo"; a following write "bar" then finish on the same handle gives
\* version 2 with content "foobar", the second write starting where the
\* first one ended; history is [v1("foo"), v2("foobar")] under a version
\* limit of 2 or more and [v2("foobar")] under a limit of 1.
C11_FooThenBar ==
    \A h \in hs :
        NewFile(h) =>
            LET r == FooBar(h)
                v1 == [num |-> 1, ctn |-> foo]
                v2 == [num |-> 2, ctn |-> foo \o bar]
            IN  /\ r.ok
                /\ r.first = <<v1>>
                /\ r.last = IF limit >= 2 THEN <<v1, v2>> ELSE <<v2>>

\* C11 witness: the two writes were made and finished under a limit of 2
C11_FooBarWritten ==
    /\ limit >= 2
    /\ vers = <<[num |-> 1, ctn |-> foo], [num |-> 2, ctn |-> foo \o bar]>>
    /\ pos[1] = Len(foo \o bar)

\* C11 as stated: the second version holds "bar" alone
C11_SecondIsBar ==
    \A h \in hs :
        NewFile(h) =>
            LET r == FooBar(h)
                v1 == [num |-> 1, ctn |-> foo]
                v2 == [num |-> 2, ctn |-> bar]
            IN  /\ r.ok
                /\ r.first = <<v1>>
                /\ r.last = IF limit >= 2 THEN <<v1, v2>> ELSE <<v2>>

\* C12: a read on a handle returns bytes of the latest committed version as
\* of the read: the bytes of the current content from the handle's position,
\* also when that version was committed through another handle after this
\* handle's reader was created.
C12_ReadsLatest ==
    \A h \in hs :
        \A n \in ReadLens :
            LET o == read(h, St(h), n, "none")
            IN  o.res = "Ok" => o.data = rdr_read(curr_ctn(vers), pos[h], n)

\* C13: a thread has at most one transaction that is begun and neither
\* committed nor aborted: while a handle of the thread holds an open
\* multi-part write, write, write_once and set_len on another handle of the
\* thread fail without a transaction and without a version; and the
\* assertion of begin_write holds: no writer means no tx_handle.
C13_OneTxPerThread ==
    /\ \A g \in hs, h \in hs :
           (g # h /\ thr[g] = thr[h]) => ~(txh[g] = "live" /\ txh[h] = "live")
    /\ \A h \in hs : wtr[h] = None => txh[h] = "none"
    /\ \A h \in hs :
           in_trans(h) =>
               /\ \A buf \in Bufs(h), f \in Faults :
                      LET o == write_once(h, St(h), buf, f)
                      IN  o.res # "Ok" /\ o.s.txh # "live" /\ o.s.vers = vers
               /\ \A buf \in Bufs(h), f \in Faults \ {"commit", "renew"} :
                      wtr[h] = None =>
                          LET o == write(h, St(h), buf, f)
                          IN  o.res # "Ok" /\ o.s.txh # "live" /\ o.s.vers = vers
               /\ \A len \in 0 .. MaxLen, f \in {"none", "set_len", "renew_sl"} :
                      LET o == set_len(h, St(h), len, f)
                      IN  o.res # "Ok" /\ o.s.vers = vers

\* C13 witness: handle 1 holds an open multi-part write with data, after
\* handle 2 of the same thread committed a version, and a write_once on
\* handle 2 is refused
C13_SecondRefused ==
    /\ thr[1] = thr[2]
    /\ txh[1] = "live" /\ wtr[1] # None /\ wtr[1].buf # <<>>
    /\ \E i \in 1 .. Len(commits) : commits[i].h = 2
    /\ write_once(2, St(2), <<2>>, "none").res = "InTrans"

\* C14: Removed is terminal: once remove_file or remove_dir has committed,
\* the path no longer resolves (NotFound), no path leads to a removed fnode,
\* and metadata, history and curr_version through a File handle that was
\* opened on the fnode before the removal fail with NotFound.
C14_RemovedIsTerminal ==
    /\ \A path \in Paths :
           /\ remove_file(nodes, ro, path).res = "Ok" =>
                  resolve(remove_file(nodes, ro, path).ns, path).res = "NotFound"
           /\ remove_dir(nodes, ro, path).res = "Ok" =>
                  resolve(remove_dir(nodes, ro, path).ns, path).res = "NotFound"
           /\ resolve(nodes, path).res = "Ok" =>
                  nodes[resolve(nodes, path).id].st = "live"
    /\ \A n \in held :
           nodes[n].st = "del" =>
               /\ File_metadata(n) = "NotFound"
               /\ File_history(n) = "NotFound"
               /\ File_curr_version(n) = "NotFound"

\* C15: on an Fs opened for writing, rename(from, to) with to a strict
\* descendant path of from fails with InvalidArgument and leaves the
\* namespace unchanged, in every namespace state.
C15_RenameIntoSelf ==
    ~ro =>
        \A from \in Paths, to \in Paths :
            (from # to /\ starts_with(to, from)) =>
                /\ rename(nodes, ro, from, to).res = "InvalidArgument"
                /\ rename(nodes, ro, from, to).ns = nodes

\* C15 witness: /a is a directory with a child, on an Fs opened for writing
\* in which an fnode was removed before, and its rename to /a/b is refused
C15_DirWithChild ==
    /\ ~ro
    /\ resolve(nodes, <<"a">>).res = "Ok"
    /\ nodes[resolve(nodes, <<"a">>).id].type = "Dir"
    /\ children_cnt(nodes, resolve(nodes, <<"a">>).id) > 0
    /\ \E n \in NodeIds : nodes[n].st = "del"
    /\ rename(nodes, ro, <<"a">>, <<"a", "b">>).res = "InvalidArgument"

\* a directory with at least one child is at path
NonEmptyDir(path) ==
    /\ resolve(nodes, path).res = "Ok"
    /\ nodes[resolve(nodes, path).id].type = "Dir"
    /\ children_cnt(nodes, resolve(nodes, path).id) > 0

\* C16: on an Fs opened for writing a non-empty directory is never removed
\* or replaced. remove_dir of it fails with NotEmpty, or with IsRoot when it
\* is the root. rename of a directory onto it fails with NotEmpty, or with
\* IsRoot when it is the root, or with InvalidArgument when it lies inside
\* the source, and is a no-op returning Ok when source and target are the
\* same path. The namespace is unchanged in every case.
C16_NonEmptyKept ==
    ~ro =>
        /\ \A path \in Paths :
               NonEmptyDir(path) =>
                   /\ remove_dir(nodes, ro, path).ns = nodes
                   /\ remove_dir(nodes, ro, path).res =
                          IF path = <<>> THEN "IsRoot" ELSE "NotEmpty"
        /\ \A from \in Paths, to \in Paths :
               (/\ resolve(nodes, from).res = "Ok"
                /\ nodes[resolve(nodes, from).id].type = "Dir"
                /\ NonEmptyDir(to)) =>
                   /\ rename(nodes, ro, from, to).ns = nodes
                   /\ rename(nodes, ro, from, to).res =
                          CASE from = to -> "Ok"
                            [] from # to /\ starts_with(to, from) -> "InvalidArgument"
                            [] from # to /\ ~starts_with(to, from) /\ to = <<>> -> "IsRoot"
                            [] OTHER -> "NotEmpty"

\* C16 witness: /a is a directory with a child and /b is a directory;
\* remove_dir of /a and rename of /b onto /a are refused with NotEmpty
C16_Refused ==
    /\ ~ro
    /\ NonEmptyDir(<<"a">>)
    /\ remove_dir(nodes, ro, <<"a">>).res = "NotEmpty"
    /\ rename(nodes, ro, <<"b">>, <<"a">>).res = "NotEmpty"

\* C16 as stated: the error is NotEmpty for every non-empty directory
C16_AlwaysNotEmpty ==
    ~ro =>
        /\ \A path \in Paths :
               NonEmptyDir(path) =>
                   /\ remove_dir(nodes, ro, path).ns = nodes
                   /\ remove_dir(nodes, ro, path).res = "NotEmpty"
        /\ \A from \in Paths, to \in Paths :
               (/\ resolve(nodes, from).res = "Ok"
                /\ nodes[resolve(nodes, from).id].type = "Dir"
                /\ NonEmptyDir(to)) =>
                   /\ rename(nodes, ro, from, to).ns = nodes
                   /\ rename(nodes, ro, from, to).res = "NotEmpty"

\* C17: on an Fs opened for writing, remove_dir("/") fails with IsRoot and
\* rename("/", to) fails with IsRoot for every to other than "/"; the
\* namespace is unchanged.
C17_RootRejected ==
    ~ro =>
        /\ remove_dir(nodes, ro, <<>>).res = "IsRoot"
        /\ remove_dir(nodes, ro, <<>>).ns = nodes
        /\ \A to \in Paths \ {<<>>} :
               /\ rename(nodes, ro, <<>>, to).res = "IsRoot"
               /\ rename(nodes, ro, <<>>, to).ns = nodes

\* C18: on an Fs opened with read_only, create_fnode, copy, copy_dir_all,
\* remove_file, remove_dir, rename and reset_password fail with ReadOnly
\* whatever their arguments, and leave the namespace and the super block
\* as they were.
C18_ReadOnly ==
    ro =>
        /\ \A path \in Paths :
               /\ \A ftype \in FileTypes :
                      create_fnode(nodes, ro, path, ftype) = NsOut("ReadOnly", nodes)
               /\ remove_file(nodes, ro, path) = NsOut("ReadOnly", nodes)
               /\ remove_dir(nodes, ro, path) = NsOut("ReadOnly", nodes)
        /\ \A from \in Paths, to \in Paths :
               /\ copy(nodes, ro, from, to) = NsOut("ReadOnly", nodes)
               /\ copy_dir_all(nodes, ro, from, to) = NsOut("ReadOnly", nodes)
               /\ rename(nodes, ro, from, to) = NsOut("ReadOnly", nodes)
        /\ \A old \in Pwds, new \in Pwds :
               Fs_reset_password(ro, sb, old, new) = [res |-> "ReadOnly", sb |-> sb]

\* C18 witness: a read-only Fs that holds a file in a directory, after a
\* file was removed and the password was reset while it was writable
C18_ReadOnlyWithFiles ==
    /\ ro
    /\ \E n \in NodeIds :
           nodes[n].st = "live" /\ nodes[n].type = "File" /\ nodes[n].parent # Root
    /\ \E n \in NodeIds : nodes[n].st = "del"
    /\ Volume_open(given.pwd, sb).res # "Ok"

\* C19: while a multi-part write is pending on a File of an open repo,
\* write_once, set_len and seek fail with NotFinish and leave the pending
\* writer, its transaction, the position and the stored versions unchanged.
C19_NotFinish ==
    \A h \in hs :
        (wtr[h] # None /\ ~closed) =>
            /\ \A buf \in Bufs(h), f \in Faults :
                   write_once(h, St(h), buf, f) = Out("NotFinish", St(h))
            /\ \A len \in 0 .. MaxLen, f \in {"none", "set_len", "renew_sl"} :
                   set_len(h, St(h), len, f) = Out("NotFinish", St(h))
            /\ \A a \in SeekArgs :
                   seek(h, St(h), a) = Out("NotFinish", St(h))

\* C19 witness: a version is stored, a further multi-part write holds data
\* and is not finished, and write_once is refused
C19_Pending ==
    /\ Len(vers) >= 1
    /\ wtr[1] # None /\ wtr[1].buf # <<>> /\ txh[1] = "live"
    /\ write_once(1, St(1), <<1>>, "none").res = "NotFinish"

\* C21: Volume::open passes the version check exactly when the stored
\* volume version has the major and the minor number of the engine's repo
\* version, whatever the patch number; otherwise it returns WrongVersion.
C21_VersionMatch ==
    \A pwd \in Pwds :
        SuperBlk_load(pwd, sb).res = "Ok" =>
            IF volver.major = repo_version.major /\ volver.minor = repo_version.minor
            THEN Volume_open(pwd, sb) = SuperBlk_load(pwd, sb)
            ELSE Volume_open(pwd, sb).res = "WrongVersion"

\* C21 witness: a volume whose patch number differs from the engine's was
\* opened and returned the payload it was created with
C21_PatchIgnored ==
    /\ volver.patch # repo_version.patch
    /\ opened.res = "Ok"
    /\ opened.payload = given.payload

\* C22: decrypt_with_ad and decrypt on a cipher text shorter than the nonce
\* and the tag together, down to the empty text, return Err(Decrypt): they
\* do not panic and return no plain text, whatever the key.
C22_FailsClosed ==
    Len(recv) < nonce_size(cry.cipher) + ATAG_SIZE =>
        \A key \in Keys :
            /\ decrypt(cry.cipher, cry.checks, recv, key).res = "Decrypt"
            /\ \A ad \in Ads :
                   decrypt_with_ad(cry.cipher, cry.checks, recv, key, ad).res = "Decrypt"

\* C23: the output of encrypt_with_ad is the nonce followed by the sealed
\* message, nonce size + ATAG_SIZE bytes longer than the message;
\* decrypt_with_ad with the same key and associated data returns the
\* message; with one byte of the output changed it returns Err(Decrypt).
C23_RoundTrip ==
    recv = cry.out /\ dec.res = "none" =>
    /\ Len(cry.out) = nonce_size(cry.cipher) + ATAG_SIZE + Len(cry.msg)
    /\ Len(cry.out) = encrypted_len(cry.cipher, Len(cry.msg))
    /\ SubSeq(cry.out, 1, nonce_size(cry.cipher))
           = SubSeq(cry.nonce, 1, nonce_size(cry.cipher))
    /\ decrypt_with_ad(cry.cipher, cry.checks, cry.out, cry.key, cry.ad)
           = [res |-> "Ok", msg |-> cry.msg]
    /\ \A i \in 1 .. Len(cry.out) : \A b \in Bytes \ {cry.out[i]} :
           decrypt_with_ad(cry.cipher, cry.checks, Changed(cry.out, i, b),
                           cry.key, cry.ad).res = "Decrypt"

\* C23 witness: a message of MaxMsg bytes, sealed with associated data and
\* a non-zero nonce, was decrypted to itself
C23_Decrypted ==
    /\ Len(cry.msg) = MaxMsg
    /\ cry.ad # <<>>
    /\ cry.nonce[1] # 0
    /\ recv = cry.out
    /\ dec = [res |-> "Ok", msg |-> cry.msg]

\* C24: for every URI that Volume::new accepts, mask_uri does not panic and
\* the line Fs::create and Fs::open log holds the URI with all that lies
\* between "://" and the '@' before the host replaced by "***", so nothing
\* of the credentials, also when they contain '@'.
C24_Masked ==
    /\ ~mask_uri(uri_text(uri)).panic
    /\ uri.creds # <<>> =>
           /\ mask_uri(uri_text(uri)).text
                  = <<uri.scheme, ":", "/", "/">> \o Mask \o <<"@">> \o uri.host
           /\ \A i \in 1 .. Len(lines) :
                  lines[i].text
                      = <<uri.scheme, ":", "/", "/">> \o Mask \o <<"@">> \o uri.host

C26_LatestStored ==
    latest # Absent =>
        /\ credentials(credfile).out = [res |-> "Ok", list |-> CHOOSE l \in latest : TRUE]
        /\ loaded.res # "none" => loaded = [res |-> "Ok", list |-> CHOOSE l \in latest : TRUE]

\* C26 witness: a reopened Storage returned the list stored last, from a
\* file that still ends with bytes of a longer list stored before
C26_ShorterReloaded ==
    /\ app = "reopened"
    /\ latest # Absent
    /\ loaded = [res |-> "Ok", list |-> CHOOSE l \in latest : TRUE]
    /\ Len(opened_credentials(credfile))
           > Len(bincode_serialize(CHOOSE l \in latest : TRUE))

\* C27: while no credentials were ever stored in the vault, credentials()
\* returns Ok with the empty list.
C27_EmptyOk ==
    latest = Absent =>
        /\ credentials(credfile).out = [res |-> "Ok", list |-> <<>>]
        /\ loaded.res # "none" => loaded = [res |-> "Ok", list |-> <<>>]

\* C28: between the calls on a File, wtr is Some exactly when tx_handle is
\* Some, and a held transaction is live: after a failed write, flush or
\* write_once the File holds neither writer nor tx handle, so that no later
\* call runs on an aborted transaction and a later write_once is not
\* refused with NotFinish.
C28_WriterHasLiveTx ==
    \A h \in hs :
        /\ wtr[h] = None <=> txh[h] = "none"
        /\ txh[h] # "dead"
        /\ txh[h] # "live" =>
               \A buf \in Bufs(h) : write_once(h, St(h), buf, "none").res # "NotFinish"

\* C29: of the processes that run lock_repo(force = false) on one file or
\* redis volume at the same time, with the test of the marker and its
\* creation as separate steps, at most one returns Ok and is attached.
C29_OneWinner == Cardinality(Attached) <= 1

\* C30: at most one live Storage of the application holds the vault under
\* a root open: a second open_with_root on the root does not end with two
\* Storages that hold the repository open.
C30_OneStorage == Cardinality({i \in Insts : inst[i] = "att"}) < 2

\* the chain of parents of fnode id reaches the root within n links
RECURSIVE under_root(_, _, _)
under_root(ns, id, n) ==
    IF id = Root THEN TRUE
    ELSE IF n = 0 THEN FALSE
    ELSE under_root(ns, ns[id].parent, n - 1)

\* C31: after any sequence of create_fnode, create_dir_all, copy,
\* copy_dir_all, remove_file, remove_dir, remove_dir_all and rename calls,
\* successful or failed, the namespace is a tree: the root is a live
\* directory, every other live fnode is the child of one live directory
\* under a name that no sibling has, and the chain of parents of every live
\* fnode ends at the root, so that no directory is its own ancestor
C31_Tree ==
    /\ nodes[Root].st = "live"
    /\ nodes[Root].type = "Dir"
    /\ \A k \in NodeIds :
           nodes[k].st = "live" =>
               /\ nodes[nodes[k].parent].st = "live"
               /\ nodes[nodes[k].parent].type = "Dir"
               /\ nodes[k].parent # k
               /\ \A j \in children(nodes, nodes[k].parent) \ {k} :
                      nodes[j].name # nodes[k].name
               /\ under_root(nodes, k, MaxNode)

\* C31 witness: a directory under the root holds an entry, and an fnode
\* has been removed before
C31_DeepAfterRemoval ==
    /\ \E k \in NodeIds :
           nodes[k].st = "live" /\ nodes[k].parent # Root
    /\ \E g \in NodeIds : nodes[g].st = "del"

\* C32: once the Fs is dropped the shutter is closed and stays closed; from
\* then on metadata, history, curr_version, version_reader, read, write,
\* flush, seek, finish, write_once and set_len of every File return
\* RepoClosed for every argument, and no step changes the position, the
\* writer, the transaction handle or the reader of a handle, or a stored
\* version
C32_AllRefused ==
    \A h \in hs :
        /\ \A n \in NodeIds :
               /\ File_metadata(n) = "RepoClosed"
               /\ File_history(n) = "RepoClosed"
               /\ File_curr_version(n) = "RepoClosed"
        /\ \A num \in 0 .. MaxVers + 1 :
               version_reader(h, St(h), num) = Out("RepoClosed", St(h))
        /\ \A n \in ReadLens, f \in {"none", "renew"} :
               /\ read(h, St(h), n, f).res = "RepoClosed"
               /\ read(h, St(h), n, f).s = St(h)
        /\ \A buf \in Bufs(h), f \in Faults :
               /\ write(h, St(h), buf, f) = Out("RepoClosed", St(h))
               /\ write_once(h, St(h), buf, f) = Out("RepoClosed", St(h))
        /\ \A f \in {"none", "flush"} :
               flush(h, St(h), f) = Out("RepoClosed", St(h))
        /\ \A a \in SeekArgs : seek(h, St(h), a) = Out("RepoClosed", St(h))
        /\ \A f \in {"none", "commit", "renew"} :
               finish(h, St(h), f) = Out("RepoClosed", St(h))
        /\ \A len \in 0 .. MaxLen, f \in {"none", "set_len", "renew_sl"} :
               set_len(h, St(h), len, f) = Out("RepoClosed", St(h))

C32_ClosedForGood ==
    /\ [](closed => C32_AllRefused)
    /\ [][closed =>
             /\ closed'
             /\ UNCHANGED <<vers, commits, pos, wtr, txh, rdr>>]_vars

\* C32 witness: the Fs was dropped while a handle, moved from the start of
\* the file, held a writer inside a live transaction, and a version is
\* stored
C32_DroppedWhileWriting ==
    /\ closed
    /\ vers # <<>>
    /\ \E h \in hs : wtr[h] # None /\ txh[h] = "live" /\ pos[h] > 0

\* C33: an open that fails, with RepoOpened, WrongVersion or a failure to
\* load the super block such as a wrong password, leaves the lock marker of
\* the volume as it was before the call; and the drop of the instance whose
\* open failed leaves the marker as it is, so that it does not remove a
\* marker that another attached instance holds
C33_FailedOpen ==
    [][\A i \in Insts :
          /\ (inst[i] = "new" /\ inst'[i] \in {"failed", "failed_att"})
                 => marker' = marker
          /\ (inst[i] \in {"failed", "failed_att"} /\ inst'[i] = "dropped")
                 => marker' = marker]_vars

\* C33 witness: an instance whose open failed has been dropped while another
\* instance is attached, and the marker is there
C33_FailedBesideHolder ==
    /\ marker
    /\ \E i \in Insts, j \in Insts :
           inst[i] = "dropped" /\ inst[j] = "att"

\* C34: Volume::init on a location where another instance holds a volume
\* open fails with RepoOpened and leaves the lock marker, the super blocks,
\* the WAL records and the address index of that volume as they are, on the
\* mem and on the file storage
C34_InitRefused ==
    (backend \in {"mem", "file"} /\ Attached # {}) =>
        \A pwd \in Pwds, payload \in Payloads :
            \E o \in {Volume_init_lock(backend, marker, sb, kv, pwd, payload,
                                       "none")} :
                /\ o.res = "RepoOpened"
                /\ o.marker = marker
                /\ o.sb = sb
                /\ o.kv = kv

\* C38: seek on a File with no pending writer stores the exact integer
\* offset (Start(p) gives p, End(p) the current length plus p, Current(p)
\* the position plus p) when that offset is not negative, and returns an
\* error and leaves the position as it is when the offset is negative; a
\* negative offset is never stored wrapped into an unsigned number
C38_SeekExact ==
    \A h \in hs :
        (~closed /\ wtr[h] = None) =>
            \A a \in SeekArgs :
                \E exact \in {CASE a.kind = "Start" -> a.off
                                [] a.kind = "End" -> Len(curr_ctn(vers)) + a.off
                                [] OTHER -> pos[h] + a.off} :
                    IF exact >= 0
                    THEN /\ seek(h, St(h), a).res = "Ok"
                         /\ seek(h, St(h), a).s.pos = exact
                    ELSE /\ seek(h, St(h), a).res # "Ok"
                         /\ seek(h, St(h), a).s.pos = pos[h]

\* C35: once logout has returned, UserState.token stays None until a login
\* that was invoked after that logout completes successfully: whenever the
\* token is set, the login that set it had not sent its request when the
\* last logout ran, so a login whose request was in flight when logout ran
\* does not set the token afterwards
C35_NoStaleLogin == token # 0 => token \in fresh

\* C36: in every interleaving of the commands each invoked command
\* eventually returns, provided every request completes and every task
\* that can go on is polled
C36_Returns ==
    \A t \in Tasks : (tasks[t].pc # "idle") ~> (tasks[t].pc = "done")

\* C36, the part on the mutexes: as long as the process has not aborted,
\* whenever a command has been invoked and has not returned, some task can
\* go on: no set of tasks waits in a cycle for the two mutexes
C36_NoCyclicWait ==
    (\A k \in Tasks : tasks[k].pc # "abort") =>
        \A t \in Tasks :
            tasks[t].pc \notin {"idle", "done", "panic"} =>
                \E k \in Tasks : step(bin, CmdSt, k) # {}

\* C37: in every ServerState reached from the default by add_server and
\* change_server calls, failing ones included, current is Some and equals
\* an element of servers; so the unwrap of current in login, my_teams,
\* my_team_members and my_channels never panics
C37_CurrentInServers ==
    /\ srv.current # {}
    /\ \E i \in 1 .. Len(srv.servers) : srv.current = {srv.servers[i]}
    /\ \A t \in Tasks : tasks[t].pc # "panic"

\* C37 witness: a server was added, and change_server has selected another
\* one afterwards
C37_AddedThenChanged ==
    /\ Len(srv.servers) > Len(ServerState_default.servers)
    /\ srv.current # {srv.servers[Len(srv.servers)]}
    /\ \E t \in Tasks : tasks[t].cmd = "change_server" /\ tasks[t].pc = "done"

\* C39: the formatting of a Response with Display terminates for every
\* variant, so that login, which logs its result, reaches its return after
\* a successful reply of the server
C39_Terminates == <>(fmtst.pc = "returned")

\* C40: the encoding of a Cost round-trips and rejects everything else: for
\* each of the 9 pairs c, from_u8(to_u8(c)) is Ok(c), distinct pairs encode
\* to distinct bytes, and from_u8 returns InvalidCost for every byte whose
\* low or high nibble is greater than 2; the conversions made so far agree
C40_RoundTrip ==
    /\ Cardinality(Costs) = 9
    /\ \A c \in Costs : from_u8(to_u8(c)) = [res |-> "Ok", cost |-> c]
    /\ \A c \in Costs, d \in Costs : to_u8(c) = to_u8(d) => c = d
    /\ \A x \in 0 .. U8 - 1 :
           (x % 16 > 2 \/ x \div 16 > 2) => from_u8(x).res = "InvalidCost"
    /\ costst.op = "to_u8" =>
           from_u8(costst.out) = [res |-> "Ok", cost |-> costst.arg]
    /\ costst.op = "from_u8" =>
           IF costst.arg % 16 > 2 \/ costst.arg \div 16 > 2
           THEN costst.out.res = "InvalidCost"
           ELSE costst.out.res = "Ok" /\ to_u8(costst.out.cost) = costst.arg

\* C40 witness: a byte with a valid low nibble and a high nibble above 2
\* was refused
C40_HighNibbleRefused ==
    /\ costst.op = "from_u8"
    /\ costst.arg % 16 <= 2
    /\ costst.arg \div 16 > 2
    /\ costst.out.res = "InvalidCost"

====
